---- MODULE Spec2Model ----
\* A model of gloom-rs/src/main.rs: the render thread's frame loop, the event
\* loop callback and the watchdog thread, with the three mutex-protected input
\* values they share.
\*
\* Numbers.  The program computes in f32.  The model computes in fixed point:
\*   angles      in units of 1/10000 rad,
\*   vectors     in units of 1/10000 (ONE is the unit length),
\*   mouse delta in pixels, time in milliseconds.
\* Rounding of f32 is not represented; what is represented is the algebra of the
\* updates (sums, scalings, clamping, sign conventions).
EXTENDS Integers, Sequences, FiniteSets, TLC

\* --------------------------------------------------------------- bounds
\* Number of events the windowing system delivers in a run.
MaxEvents == 3
\* Number of events delivered in a run that has keyboard events.
MaxKeyEvents == 2
\* Number of frames the render loop draws in a run.
MaxFrames == 2

\* Number of vertices of a color buffer handed to create_vao.
MaxVertices == 4

\* ------------------------------------------------------ program constants
INITIAL_SCREEN_W == 800
INITIAL_SCREEN_H == 600
\* camera_speed = 2.0
camera_speed == 2
\* mouse_sensitivity = 0.005 rad per pixel, in 1/10000 rad
mouse_sensitivity == 50
\* std::f32::consts::FRAC_PI_2 = 1.5707964, in 1/10000 rad
FRAC_PI_2 == 15708
\* The fixed-point unit length.
ONE == 100 * 100
\* pi and 2*pi in 1/10000 rad, consistent with FRAC_PI_2.
PI == 2 * FRAC_PI_2
TAU == 4 * FRAC_PI_2

\* ------------------------------------------------------------ arithmetic
Abs(x) == IF x < 0 THEN -x ELSE x

\* Division rounding toward zero, so that negation commutes with scaling as it
\* does in floating point: SDiv(-a, b) = -SDiv(a, b).
SDiv(a, b) == IF a >= 0 THEN a \div b ELSE -((-a) \div b)

\* Fixed-point product of two numbers scaled by ONE.
FMul(a, b) == SDiv(a * b, ONE)

RECURSIVE ISqrtBits(_, _, _)
\* Largest r with r*r <= n, found bit by bit from b (a power of 2) downwards.
\* (The next r is bound by a quantifier so that it is computed once.)
ISqrtBits(n, r, b) ==
    IF b = 0 THEN r
    ELSE CHOOSE s \in {ISqrtBits(n, c, b \div 2) :
                           c \in {IF (r + b) * (r + b) <= n THEN r + b ELSE r}} : TRUE

ISqrt(n) == CHOOSE s \in {ISqrtBits(m, 0, 16384) : m \in {n}} : TRUE

\* cos on [0, FRAC_PI_2]: the Taylor polynomial to degree 8, in Horner form.
CosFirstQuadrant(x) ==
    LET x2 == FMul(x, x)
        t4 == ONE - SDiv(x2, 56)
        t3 == ONE - SDiv(FMul(x2, t4), 30)
        t2 == ONE - SDiv(FMul(x2, t3), 12)
    IN  ONE - SDiv(FMul(x2, t2), 2)

\* f32::cos, by range reduction to the first quadrant.
Cos(a) ==
    LET m == a % TAU
        h == IF m > PI THEN TAU - m ELSE m
    IN  IF h > FRAC_PI_2 THEN -CosFirstQuadrant(PI - h) ELSE CosFirstQuadrant(h)

\* f32::sin
Sin(a) == Cos(a - FRAC_PI_2)

\* f32::clamp(self, min, max)
Clamp(x, lo, hi) == IF x < lo THEN lo ELSE IF x > hi THEN hi ELSE x

\* --------------------------------------------------------------- vectors
Vec3(x, y, z) == <<x, y, z>>
VAdd(a, b) == <<a[1] + b[1], a[2] + b[2], a[3] + b[3]>>
VNeg(a) == <<-a[1], -a[2], -a[3]>>
\* vector * scalar, the scalar given as a fraction num/den
VScale(a, num, den) == <<SDiv(a[1] * num, den), SDiv(a[2] * num, den), SDiv(a[3] * num, den)>>

\* glm::cross
Cross(a, b) ==
    <<FMul(a[2], b[3]) - FMul(a[3], b[2]),
      FMul(a[3], b[1]) - FMul(a[1], b[3]),
      FMul(a[1], b[2]) - FMul(a[2], b[1])>>

\* glm::length
Length(a) == ISqrt(a[1] * a[1] + a[2] * a[2] + a[3] * a[3])

\* glm::normalize.  A vector whose fixed-point length is 0 has no direction the
\* model can represent (f32 divides by a length near 0 there); it is left as the
\* zero vector.
Normalize(a) ==
    LET n == Length(a)
    IN  IF n = 0 THEN <<0, 0, 0>> ELSE VScale(a, ONE, n)

\* util::calculate_direction
calculate_direction(yaw, pitch) ==
    Vec3(FMul(Cos(yaw), Cos(pitch)), Sin(pitch), FMul(Sin(yaw), Cos(pitch)))

\* -------------------------------------------------------------- matrices
\* A glm::Mat4 is a tuple of four rows of four entries, in units of 1/10000.
\* The identity matrix.
Identity4 == <<<<ONE, 0, 0, 0>>, <<0, ONE, 0, 0>>, <<0, 0, ONE, 0>>, <<0, 0, 0, ONE>>>>

\* Mat4 * Mat4
MatMul(a, b) ==
    LET E(i, j) == FMul(a[i][1], b[1][j]) + FMul(a[i][2], b[2][j])
                     + FMul(a[i][3], b[3][j]) + FMul(a[i][4], b[4][j])
        Row(i) == <<E(i, 1), E(i, 2), E(i, 3), E(i, 4)>>
    IN  <<Row(1), Row(2), Row(3), Row(4)>>

\* Mat4 * Vec4
MatVec(a, v) ==
    LET E(i) == FMul(a[i][1], v[1]) + FMul(a[i][2], v[2])
                  + FMul(a[i][3], v[3]) + FMul(a[i][4], v[4])
    IN  <<E(1), E(2), E(3), E(4)>>

\* glm::translation(&v)
glm_translation(v) ==
    <<<<ONE, 0, 0, v[1]>>, <<0, ONE, 0, v[2]>>, <<0, 0, ONE, v[3]>>, <<0, 0, 0, ONE>>>>

\* glm::scaling(&v)
glm_scaling(v) ==
    <<<<v[1], 0, 0, 0>>, <<0, v[2], 0, 0>>, <<0, 0, v[3], 0>>, <<0, 0, 0, ONE>>>>

\* glm::rotation(angle, &axis): the rotation by angle about the normalized axis
\* (the identity when the angle is 0, whatever the axis).
glm_rotation(angle, axis) ==
    IF angle = 0 THEN Identity4
    ELSE LET u == Normalize(axis)
             c == Cos(angle)
             s == Sin(angle)
             t == ONE - c
             uu(i, j) == FMul(t, FMul(u[i], u[j]))
         IN  <<<<uu(1, 1) + c, uu(1, 2) - FMul(s, u[3]), uu(1, 3) + FMul(s, u[2]), 0>>,
               <<uu(2, 1) + FMul(s, u[3]), uu(2, 2) + c, uu(2, 3) - FMul(s, u[1]), 0>>,
               <<uu(3, 1) - FMul(s, u[2]), uu(3, 2) + FMul(s, u[1]), uu(3, 3) + c, 0>>,
               <<0, 0, 0, ONE>>>>

\* f32::atan2(y, x).  Exact on the axes and the diagonals; elsewhere
\* atan(t) is taken as t*pi/4 + 0.273*t*(1 - t) for 0 <= t <= 1.
Atan2(y, x) ==
    IF y = 0 THEN (IF x >= 0 THEN 0 ELSE PI)
    ELSE IF x = 0 THEN (IF y > 0 THEN FRAC_PI_2 ELSE -FRAC_PI_2)
    ELSE LET ax == Abs(x)
             ay == Abs(y)
             t  == IF ay > ax THEN SDiv(ax * ONE, ay) ELSE SDiv(ay * ONE, ax)
             a0 == FMul(t, FRAC_PI_2 \div 2) + FMul(FMul(2730, t), ONE - t)
             a1 == IF ay > ax THEN FRAC_PI_2 - a0 ELSE a0
             a2 == IF x < 0 THEN PI - a1 ELSE a1
         IN  IF y < 0 THEN -a2 ELSE a2

\* glm::length(&glm::vec2(x, z))
Length2(x, z) == ISqrt(x * x + z * z)

\* util::rotation_matrix_x, _y, _z
rotation_matrix_x(angle) == glm_rotation(angle, Vec3(ONE, 0, 0))
rotation_matrix_y(angle) == glm_rotation(angle, Vec3(0, ONE, 0))
rotation_matrix_z(angle) == glm_rotation(angle, Vec3(0, 0, ONE))

\* (mutant of rotate_vertices: the product is taken as x * y * z)
rotate_vertices_xyz(vertices, rotation_x, rotation_y, rotation_z) ==
    LET rotation_matrix ==
            MatMul(MatMul(rotation_matrix_x(rotation_x), rotation_matrix_y(rotation_y)),
                   rotation_matrix_z(rotation_z))
        rotated_vertex(i) ==
            MatVec(rotation_matrix,
                   <<vertices[3 * i + 1], vertices[3 * i + 2], vertices[3 * i + 3], ONE>>)
    IN  [k \in 1..(3 * (Len(vertices) \div 3)) |->
            rotated_vertex((k - 1) \div 3)[((k - 1) % 3) + 1]]

\* util::rotate_vertices: the flat list of coordinates, each whole vertex
\* multiplied by rotation_matrix_z * rotation_matrix_y * rotation_matrix_x.
rotate_vertices(vertices, rotation_x, rotation_y, rotation_z) ==
    LET rotation_matrix ==
            MatMul(MatMul(rotation_matrix_z(rotation_z), rotation_matrix_y(rotation_y)),
                   rotation_matrix_x(rotation_x))
        rotated_vertex(i) ==
            MatVec(rotation_matrix,
                   <<vertices[3 * i + 1], vertices[3 * i + 2], vertices[3 * i + 3], ONE>>)
    IN  [k \in 1..(3 * (Len(vertices) \div 3)) |->
            rotated_vertex((k - 1) \div 3)[((k - 1) % 3) + 1]]

\* (mutant of calculate_transformation_object: scaling * rotation * translation)
calculate_transformation_object_srt(position, rotation, scale, view_projection_matrix) ==
    LET object_rotation_matrix ==
            MatMul(MatMul(glm_rotation(rotation[3], Vec3(0, 0, ONE)),
                          glm_rotation(rotation[2], Vec3(0, ONE, 0))),
                   glm_rotation(rotation[1], Vec3(ONE, 0, 0)))
        object_transform_matrix ==
            MatMul(MatMul(glm_scaling(scale), object_rotation_matrix),
                   glm_translation(position))
    IN  MatMul(view_projection_matrix, object_transform_matrix)

\* util::calculate_transformation_object
calculate_transformation_object(position, rotation, scale, view_projection_matrix) ==
    LET object_rotation_matrix ==
            MatMul(MatMul(glm_rotation(rotation[3], Vec3(0, 0, ONE)),
                          glm_rotation(rotation[2], Vec3(0, ONE, 0))),
                   glm_rotation(rotation[1], Vec3(ONE, 0, 0)))
        object_transform_matrix ==
            MatMul(MatMul(glm_translation(position), object_rotation_matrix),
                   glm_scaling(scale))
    IN  MatMul(view_projection_matrix, object_transform_matrix)

\* util.rs 593-604: the pitch of the direction from the billboard to the camera
billboard_angle_x(position, camera_pos) ==
    LET d == Normalize(VAdd(camera_pos, VNeg(position)))
    IN  Atan2(d[2], Length2(d[1], d[3]))

\* util.rs 593-609: the yaw of the direction from the billboard to the camera
billboard_angle_y(position, camera_pos) ==
    LET d == Normalize(VAdd(camera_pos, VNeg(position)))
    IN  Atan2(d[1], d[3])

\* util::calculate_transformation_billboard
calculate_transformation_billboard(position, rotation, scale, camera_pos, view_projection_matrix) ==
    LET billboard_rotation_matrix_x ==
            glm_rotation(billboard_angle_x(position, camera_pos) + rotation[1],
                         Vec3(ONE, 0, 0))
        billboard_rotation_matrix_y ==
            glm_rotation(billboard_angle_y(position, camera_pos) + rotation[2],
                         Vec3(0, ONE, 0))
        billboard_rotation_matrix_z == glm_rotation(rotation[3], Vec3(0, 0, ONE))
        billboard_rotation_matrix ==
            MatMul(MatMul(billboard_rotation_matrix_z, billboard_rotation_matrix_y),
                   billboard_rotation_matrix_x)
        billboard_transform_matrix ==
            MatMul(MatMul(glm_translation(position), billboard_rotation_matrix),
                   glm_scaling(scale))
    IN  MatMul(view_projection_matrix, billboard_transform_matrix)

\* ------------------------------------------------ the frame's matrices
\* (mutant of orca_rotation_y: the angle saturates at a full turn)
orca_rotation_y_saturating(elapsed) == Clamp(elapsed, 0, TAU)

\* main.rs 253: orca_rotation_y = elapsed % TAU (elapsed in 1/10000 s)
orca_rotation_y(elapsed) == elapsed % TAU

\* main.rs 258: orca_linear_y = 0.5 * (elapsed * 1.0).sin()
orca_linear_y(elapsed) == SDiv(Sin(elapsed), 2)

\* main.rs 262
orca_position == Vec3(5 * ONE, 0, 0)

\* main.rs 268-271
orca_start_transform_matrix ==
    MatMul(MatMul(glm_translation(orca_position),
                  glm_rotation(PI \div 2, Vec3(0, ONE, 0))),
           glm_scaling(Vec3(3 * ONE, 3 * ONE, 3 * ONE)))

\* (mutant of view_projection_matrix_orca: the orca is not moved to the origin
\* before the rotation animation)
view_projection_matrix_orca_about_origin(view_projection_matrix, elapsed) ==
    MatMul(MatMul(MatMul(MatMul(view_projection_matrix,
                                glm_translation(orca_position)),
                         glm_translation(Vec3(0, orca_linear_y(elapsed), 0))),
                  glm_rotation(orca_rotation_y(elapsed), Vec3(0, ONE, 0))),
           orca_start_transform_matrix)

\* main.rs 255-286: view_projection * T(p) * linear * rotation * T(-p) * start,
\* multiplied from the left to the right.
view_projection_matrix_orca(view_projection_matrix, elapsed) ==
    MatMul(MatMul(MatMul(MatMul(MatMul(view_projection_matrix,
                                       glm_translation(orca_position)),
                                glm_translation(Vec3(0, orca_linear_y(elapsed), 0))),
                         glm_rotation(orca_rotation_y(elapsed), Vec3(0, ONE, 0))),
                  glm_translation(VNeg(orca_position))),
           orca_start_transform_matrix)

\* main.rs 292
particles_position == Vec3(ONE, 0, 0)

\* main.rs 298-301 (0.1 is ONE / 10)
particles_start_transform_matrix ==
    MatMul(MatMul(glm_translation(particles_position),
                  glm_rotation(0, Vec3(0, 0, 0))),
           glm_scaling(Vec3(ONE \div 10, ONE \div 10, ONE \div 10)))

\* main.rs 310-341: the rotation that turns the particles to the camera
particles_rotation_animation_matrix(camera_pos) ==
    LET particle_to_camera_direction ==
            Normalize(VAdd(camera_pos, VNeg(particles_position)))
        angle_y == Atan2(particle_to_camera_direction[1], particle_to_camera_direction[3])
        angle_x == Atan2(particle_to_camera_direction[2],
                         Length2(particle_to_camera_direction[1],
                                 particle_to_camera_direction[3]))
        rotation_y_180 == glm_rotation(PI, Vec3(0, ONE, 0))
    IN  MatMul(MatMul(rotation_y_180, glm_rotation(angle_y, Vec3(0, ONE, 0))),
               glm_rotation(angle_x, Vec3(ONE, 0, 0)))

\* main.rs 346-353: 0.0123 sin(0.13 t), 0.0456 sin(0.07 t), 0.0789 sin(0.74 t)
particles_linear(elapsed) ==
    Vec3(FMul(123, Sin(SDiv(elapsed * 13, 100))),
         FMul(456, Sin(SDiv(elapsed * 7, 100))),
         FMul(789, Sin(SDiv(elapsed * 74, 100))))

\* main.rs 362-368
view_projection_matrix_particles(view_projection_matrix, camera_pos, elapsed) ==
    MatMul(MatMul(MatMul(MatMul(MatMul(view_projection_matrix,
                                       glm_translation(particles_position)),
                                glm_translation(particles_linear(elapsed))),
                         particles_rotation_animation_matrix(camera_pos)),
                  glm_translation(VNeg(particles_position))),
           particles_start_transform_matrix)

\* ----------------------------------------------------------------- state
VARIABLES
    \* the three shared values (main.rs 40-53)
    pressed_keys,           \* Vec<VirtualKeyCode>: a sequence of key codes
    mouse_delta,            \* (f32, f32): <<x, y>> in pixels
    window_size,            \* (u32, u32, bool): <<width, height, resized>>
    \* the owner of each Mutex: "free", "render" or "event"
    mutex,
    \* the mutexes poisoned by a panic of their holder
    poisoned,
    \* camera variables moved into the render thread (main.rs 55-61)
    camera_position, camera_yaw, camera_pitch,
    \* owned by the event loop closure (main.rs 62)
    mouse_right_button_pressed,
    \* render thread locals
    window_aspect_ratio,    \* <<numerator, denominator>>
    delta_time,             \* this frame's delta_time, in ms
    camera_forward, camera_right, camera_up,
    context_size,           \* the size last given to context.resize
    viewport,               \* the size last given to gl::Viewport
    frame_out,              \* what the last drawn frame was built from
    frames,                 \* frames begun
    \* threads
    r_pc,                   \* render thread position
    e_pc,                   \* event loop position
    w_pc,                   \* watchdog position
    event,                  \* the event the callback is handling
    events,                 \* events delivered
    control_flow,           \* *control_flow
    render_thread_healthy,  \* RwLock<bool>
    \* history (not program state): what the environment has sent so far
    h_added,                \* total <<x, y>> the event loop added to mouse_delta
    h_motion_held,          \* total <<x, y>> of MouseMotion delivered while the
                            \* latest Right-button event was Pressed
    h_right_last,           \* state of the latest Right-button event, or "None"
    h_key_last,             \* state of the latest event of each key
    h_resized,              \* Resized events delivered
    h_resizes,              \* context.resize calls made
    h_dropped,              \* MouseMotion delivered while the latest Right-button
                            \* event was not Pressed: the total, and the frame
                            \* count at the latest one
    h_key_repeats,          \* key events that repeat the key's latest state
    h_frame_start,          \* yaw, pitch and position when the frame began
    h_stored,               \* the sizes the event loop stored, in order
    h_applied,              \* the sizes the render loop applied, in order, each
                            \* with the number of sizes stored by then
    \* what went wrong while the meshes and shaders were loaded, or "none"
    load_failure,
    \* the library functions of util.rs and the frame's matrices, called alone
    call,                   \* the function called and its arguments
    ret,                    \* what it returned
    \* the scene graph and its traversal
    scene,                  \* the nodes: drawable and children of each
    stack,                  \* the nodes yet to visit, the next one first
    visited,                \* the nodes visited, in order
    draw_commands           \* the draw commands yielded, in order

shared == <<pressed_keys, mouse_delta, window_size, mutex, poisoned>>
camera == <<camera_position, camera_yaw, camera_pitch>>
render_locals == <<window_aspect_ratio, delta_time, camera_forward, camera_right,
                   camera_up, context_size, viewport, frame_out, frames>>
event_locals == <<mouse_right_button_pressed, event, events, control_flow>>
history == <<h_added, h_motion_held, h_right_last, h_key_last, h_resized, h_resizes,
             h_dropped, h_key_repeats>>
order_history == <<h_frame_start, h_stored, h_applied>>
library == <<call, ret, scene, stack, visited, draw_commands>>
vars == <<shared, camera, render_locals, event_locals, r_pc, e_pc, w_pc,
          render_thread_healthy, history, order_history, load_failure, library>>

\* ---------------------------------------------------------------- inputs
\* The key codes the model's keyboard has: the six movement keys, the two exit
\* keys and one key with no binding.
MoveKeys == {"W", "S", "A", "D", "Space", "LShift"}
ExitKeys == {"Escape", "Q"}
KeyCodes == MoveKeys \cup ExitKeys \cup {"E"}
ElementStates == {"Pressed", "Released"}
MouseButtons == {"Left", "Right"}
\* Frame durations, in ms (60 and 30 frames per second).
DeltaTimes == {16, 33}
\* Mouse motions, in pixels: one that overshoots the pitch bound upwards and
\* turns yaw past a quarter turn, one small, one that overshoots downwards.
Motions == {<<400, -400>>, <<-100, 100>>, <<0, 400>>}
\* Window sizes: one of the initial 4:3 ratio and one of another ratio.
Sizes == {<<1024, 768>>, <<1280, 720>>}

NoEvent == [kind |-> "None"]
Resized(w, h) == [kind |-> "Resized", width |-> w, height |-> h]
CloseRequested == [kind |-> "CloseRequested"]
KeyboardInput(s, k) == [kind |-> "KeyboardInput", state |-> s, keycode |-> k]
MouseInput(b, s) == [kind |-> "MouseInput", button |-> b, state |-> s]
MouseMotion(d) == [kind |-> "MouseMotion", delta |-> d]

\* ------------------------------------------------------------------ Init
\* main.rs 26-67 and 416-426: the state when the three threads start.
Init ==
    /\ pressed_keys = <<>>
    /\ mouse_delta = <<0, 0>>
    /\ window_size = <<INITIAL_SCREEN_W, INITIAL_SCREEN_H, FALSE>>
    /\ mutex = [m \in {"keys", "mouse", "window"} |-> "free"]
    /\ poisoned = {}
    /\ camera_position = Vec3(0, 0, ONE)
    /\ camera_yaw = 0
    /\ camera_pitch = 0
    /\ mouse_right_button_pressed = FALSE
    /\ window_aspect_ratio = <<INITIAL_SCREEN_W, INITIAL_SCREEN_H>>
    /\ delta_time = 0
    /\ camera_forward = Vec3(0, 0, 0)
    /\ camera_right = Vec3(0, 0, 0)
    /\ camera_up = Vec3(0, 0, 0)
    /\ context_size = <<INITIAL_SCREEN_W, INITIAL_SCREEN_H>>
    /\ viewport = <<INITIAL_SCREEN_W, INITIAL_SCREEN_H>>
    /\ frame_out = [drawn |-> FALSE, aspect |-> <<0, 1>>, eye |-> Vec3(0, 0, 0),
                    center |-> Vec3(0, 0, 0), up |-> Vec3(0, 0, 0)]
    /\ frames = 0
    /\ r_pc = "load"
    /\ e_pc = "wait"
    /\ w_pc = "join"
    /\ event = NoEvent
    /\ events = 0
    /\ control_flow = "Wait"
    /\ render_thread_healthy = TRUE
    /\ h_added = <<0, 0>>
    /\ h_motion_held = <<0, 0>>
    /\ h_right_last = "None"
    /\ h_key_last = [k \in KeyCodes |-> "Released"]
    /\ h_resized = 0
    /\ h_resizes = 0
    /\ h_dropped = [amount |-> <<0, 0>>, frame |-> 0]
    /\ h_key_repeats = 0
    /\ h_frame_start = [yaw |-> 0, pitch |-> 0, position |-> Vec3(0, 0, ONE)]
    /\ h_stored = <<>>
    /\ h_applied = <<>>
    /\ load_failure = "none"
    /\ call = [fn |-> "none"]
    /\ ret = <<>>
    /\ scene = <<>>
    /\ stack = <<>>
    /\ visited = <<>>
    /\ draw_commands = <<>>

\* el.run ends the process once the callback has left control_flow at Exit.
Running == e_pc # "exited"

\* ---------------------------------------------------------------- mutexes
\* (mutant of CanLock: lock never blocks)
NeverBlocks(m) == TRUE

\* Mutex::lock blocks while another thread holds the mutex.
CanLock(m) == mutex[m] = "free"
\* (mutant of LockOk: a poisoned mutex is locked like any other)
LockAlwaysOk(m) == TRUE
\* What lock() returns once it returns: Err when the mutex is poisoned.
LockOk(m) == m \notin poisoned
Acquire(m, who) == [mutex EXCEPT ![m] = who]
\* (mutant of Release: the guard outlives its block)
KeepHeld(m) == mutex
\* The guard is dropped at the end of its if-let block.
Release(m) == [mutex EXCEPT ![m] = "free"]

\* ---------------------------------------------------------- render thread
\* What can go wrong while the assets are loaded: the context cannot be made
\* current, a mesh file does not load, a shader file has no known extension,
\* cannot be read, does not compile, or the program does not link.
LoadFailures == {"context", "mesh", "extension", "read", "compile", "link"}

\* Whether the failure panics the render thread.
\*   main.rs 72         make_current().unwrap()
\*   util.rs 73-74      load_obj: unwrap_or_else(|e| panic!(..))
\*   shader.rs 131-139  attach_file: expect on the extension and on the read,
\*                      panic! on a path without extension
\*   shader.rs 148-150  compile_shader: panic!("Shader failed to compile.")
\*   shader.rs 198-209  link: the result of check_linker_errors() is dropped
\*                      and the Shader is returned
load_panics(failure) ==
    failure \in {"context", "mesh", "extension", "read", "compile"}

\* main.rs 71-167: the context is made current, the meshes and shaders are
\* loaded, and nothing panics: the loop is entered.
R_Load ==
    /\ Running /\ r_pc = "load"
    /\ load_failure' = "none"
    /\ r_pc' = "begin"
    /\ UNCHANGED <<library, order_history, shared, camera, render_locals, event_locals, e_pc, w_pc,
                   render_thread_healthy, history>>

\* main.rs 71-167 when something fails: the thread panics or goes on, as
\* load_panics says.
R_LoadFailure ==
    /\ Running /\ r_pc = "load"
    /\ \E failure \in LoadFailures :
          /\ load_failure' = failure
          /\ r_pc' = IF load_panics(failure) THEN "panicked" ELSE "begin"
    /\ UNCHANGED <<library, order_history, shared, camera, render_locals, event_locals, e_pc, w_pc,
                   render_thread_healthy, history>>

\* main.rs 170-179: the frame's delta_time and the camera basis.
R_Begin ==
    /\ Running /\ r_pc = "begin"
    /\ frames < MaxFrames
    /\ \E dt \in DeltaTimes : delta_time' = dt
    /\ frames' = frames + 1
    /\ \E forward \in {calculate_direction(camera_yaw, camera_pitch)} :
       \E right \in {Normalize(Cross(Vec3(0, ONE, 0), forward))} :
          /\ camera_forward' = forward
          /\ camera_right' = right
          /\ camera_up' = Normalize(Cross(forward, right))
    /\ h_frame_start' = [yaw |-> camera_yaw, pitch |-> camera_pitch,
                          position |-> camera_position]
    /\ r_pc' = "lock_ws"
    /\ UNCHANGED <<load_failure, library, h_stored, h_applied, shared, camera, window_aspect_ratio, context_size, viewport,
                   frame_out, event_locals, e_pc, w_pc, render_thread_healthy,
                   history>>

\* main.rs 182: window_size.lock()
R_LockWindow ==
    /\ Running /\ r_pc = "lock_ws"
    /\ CanLock("window")
    /\ IF LockOk("window")
       THEN mutex' = Acquire("window", "render") /\ r_pc' = "ws_cs"
       ELSE mutex' = mutex /\ r_pc' = "lock_keys"
    /\ UNCHANGED <<load_failure, library, order_history, pressed_keys, mouse_delta, window_size, poisoned, camera,
                   render_locals, event_locals, e_pc, w_pc, render_thread_healthy,
                   history>>

\* (mutant of resize_seen: the flag is left set)
resize_left_set(size) == size

\* main.rs 186: (*new_size).2 = false
resize_seen(size) == <<size[1], size[2], FALSE>>

\* main.rs 183-190: the body of the resize block, and the drop of the guard.
R_Resize ==
    /\ Running /\ r_pc = "ws_cs"
    /\ IF window_size[3]
       THEN /\ context_size' = <<window_size[1], window_size[2]>>
            \* main.rs 185 is commented out: the ratio is not assigned
            /\ window_aspect_ratio' = window_aspect_ratio
            /\ window_size' = resize_seen(window_size)
            /\ viewport' = <<window_size[1], window_size[2]>>
            /\ h_resizes' = h_resizes + 1
            /\ h_applied' = Append(h_applied, [size |-> <<window_size[1], window_size[2]>>,
                                               stored |-> Len(h_stored)])
       ELSE UNCHANGED <<context_size, window_aspect_ratio, window_size, viewport,
                        h_resizes, h_applied>>
    /\ mutex' = Release("window")
    /\ r_pc' = "lock_keys"
    /\ UNCHANGED <<load_failure, library, h_frame_start, h_stored, pressed_keys, mouse_delta, poisoned, camera, delta_time,
                   camera_forward, camera_right, camera_up, frame_out, frames,
                   event_locals, e_pc, w_pc, render_thread_healthy, h_added,
                   h_motion_held, h_right_last, h_key_last, h_resized, h_dropped, h_key_repeats>>

\* main.rs 184-188 with util.rs 10-33: gl::Viewport reports an error, the debug
\* callback panics; context.resize and the clearing of the flag are done, the
\* guard is dropped by the unwinding and poisons the mutex.
R_ResizePanic ==
    /\ Running /\ r_pc = "ws_cs"
    /\ window_size[3]
    /\ context_size' = <<window_size[1], window_size[2]>>
    /\ window_size' = resize_seen(window_size)
    /\ h_resizes' = h_resizes + 1
    /\ h_applied' = Append(h_applied, [size |-> <<window_size[1], window_size[2]>>,
                                       stored |-> Len(h_stored)])
    /\ mutex' = Release("window")
    /\ poisoned' = poisoned \cup {"window"}
    /\ r_pc' = "panicked"
    /\ UNCHANGED <<load_failure, library, h_frame_start, h_stored, pressed_keys, mouse_delta, camera, window_aspect_ratio,
                   delta_time, camera_forward, camera_right, camera_up, viewport,
                   frame_out, frames, event_locals, e_pc, w_pc,
                   render_thread_healthy, h_added, h_motion_held, h_right_last,
                   h_key_last, h_resized, h_dropped, h_key_repeats>>

\* main.rs 193: pressed_keys.lock()
R_LockKeys ==
    /\ Running /\ r_pc = "lock_keys"
    /\ CanLock("keys")
    /\ IF LockOk("keys")
       THEN mutex' = Acquire("keys", "render") /\ r_pc' = "keys_cs"
       ELSE mutex' = mutex /\ r_pc' = "lock_mouse"
    /\ UNCHANGED <<load_failure, library, order_history, pressed_keys, mouse_delta, window_size, poisoned, camera,
                   render_locals, event_locals, e_pc, w_pc, render_thread_healthy,
                   history>>

\* (mutant of movement_vector: D moves the same way as A)
movement_vector_d_as_a(key, forward, right, up, dt) ==
    CASE key = "W"      -> VScale(forward, camera_speed * dt, 1000)
      [] key = "S"      -> VScale(VNeg(forward), camera_speed * dt, 1000)
      [] key = "A"      -> VScale(right, camera_speed * dt, 1000)
      [] key = "D"      -> VScale(right, camera_speed * dt, 1000)
      [] key = "Space"  -> VScale(up, camera_speed * dt, 1000)
      [] key = "LShift" -> VScale(VNeg(up), camera_speed * dt, 1000)
      [] OTHER          -> Vec3(0, 0, 0)

\* main.rs 195-203: the match on the key.
movement_vector(key, forward, right, up, dt) ==
    CASE key = "W"      -> VScale(forward, camera_speed * dt, 1000)
      [] key = "S"      -> VScale(VNeg(forward), camera_speed * dt, 1000)
      [] key = "A"      -> VScale(right, camera_speed * dt, 1000)
      [] key = "D"      -> VScale(VNeg(right), camera_speed * dt, 1000)
      [] key = "Space"  -> VScale(up, camera_speed * dt, 1000)
      [] key = "LShift" -> VScale(VNeg(up), camera_speed * dt, 1000)
      [] OTHER          -> Vec3(0, 0, 0)

RECURSIVE apply_keys(_, _, _, _, _, _)
\* main.rs 194-207: for key in keys.iter() { camera_position += movement_vector }
apply_keys(keys, position, forward, right, up, dt) ==
    IF keys = <<>> THEN position
    ELSE apply_keys(Tail(keys),
                    VAdd(position, movement_vector(Head(keys), forward, right, up, dt)),
                    forward, right, up, dt)

\* (mutant of keys_iter: the render thread takes the keys out of the list)
keys_drain(keys) == <<>>

\* main.rs 193-194: the guard is bound immutably and the list is only iterated
\* (keys.iter()); this is the list the block leaves behind.
keys_iter(keys) == keys

\* main.rs 193-208: the body of the keyboard block, and the drop of the guard.
R_Keys ==
    /\ Running /\ r_pc = "keys_cs"
    /\ camera_position' = apply_keys(pressed_keys, camera_position, camera_forward,
                                     camera_right, camera_up, delta_time)
    /\ pressed_keys' = keys_iter(pressed_keys)
    /\ mutex' = Release("keys")
    /\ r_pc' = "lock_mouse"
    /\ UNCHANGED <<load_failure, library, order_history, mouse_delta, window_size, poisoned, camera_yaw,
                   camera_pitch, render_locals, event_locals, e_pc, w_pc,
                   render_thread_healthy, history>>

\* main.rs 211: mouse_delta.lock()
R_LockMouse ==
    /\ Running /\ r_pc = "lock_mouse"
    /\ CanLock("mouse")
    /\ IF LockOk("mouse")
       THEN mutex' = Acquire("mouse", "render") /\ r_pc' = "mouse_cs"
       ELSE mutex' = mutex /\ r_pc' = "draw"
    /\ UNCHANGED <<load_failure, library, order_history, pressed_keys, mouse_delta, window_size, poisoned, camera,
                   render_locals, event_locals, e_pc, w_pc, render_thread_healthy,
                   history>>

\* (mutant of pitch_update: only the upper bound is enforced)
pitch_update_upper_only(pitch, dy) ==
    IF pitch - dy * mouse_sensitivity > FRAC_PI_2
    THEN FRAC_PI_2 ELSE pitch - dy * mouse_sensitivity

\* main.rs 212 and 216
pitch_update(pitch, dy) ==
    Clamp(pitch - dy * mouse_sensitivity, -FRAC_PI_2, FRAC_PI_2)

\* main.rs 213
yaw_update(yaw, dx) == yaw + dx * mouse_sensitivity

\* (mutant of delta_reset: the delta is not reset)
delta_kept(delta) == delta

\* main.rs 219: *delta = (0.0, 0.0)
delta_reset(delta) == <<0, 0>>

\* (mutant of R_Mouse: the camera basis is computed again after the drain)
R_MouseThenBasis ==
    /\ Running /\ r_pc = "mouse_cs"
    /\ camera_pitch' = pitch_update(camera_pitch, mouse_delta[2])
    /\ camera_yaw' = yaw_update(camera_yaw, mouse_delta[1])
    /\ mouse_delta' = delta_reset(mouse_delta)
    /\ mutex' = Release("mouse")
    /\ r_pc' = "draw"
    /\ \E forward \in {calculate_direction(camera_yaw', camera_pitch')} :
       \E right \in {Normalize(Cross(Vec3(0, ONE, 0), forward))} :
          /\ camera_forward' = forward
          /\ camera_right' = right
          /\ camera_up' = Normalize(Cross(forward, right))
    /\ UNCHANGED <<load_failure, library, order_history, pressed_keys, window_size, poisoned, camera_position,
                   window_aspect_ratio, delta_time, context_size, viewport,
                   frame_out, frames, event_locals, e_pc, w_pc,
                   render_thread_healthy, history>>

\* main.rs 211-220: the body of the mouse block, and the drop of the guard.
R_Mouse ==
    /\ Running /\ r_pc = "mouse_cs"
    /\ camera_pitch' = pitch_update(camera_pitch, mouse_delta[2])
    /\ camera_yaw' = yaw_update(camera_yaw, mouse_delta[1])
    /\ mouse_delta' = delta_reset(mouse_delta)
    /\ mutex' = Release("mouse")
    /\ r_pc' = "draw"
    /\ UNCHANGED <<load_failure, library, order_history, pressed_keys, window_size, poisoned, camera_position,
                   render_locals, event_locals, e_pc, w_pc, render_thread_healthy,
                   history>>

\* main.rs 224-406: the matrices are built and the frame is drawn.  The
\* projection takes window_aspect_ratio, the view matrix is
\* look_at(position, position + forward, up).
R_Draw ==
    /\ Running /\ r_pc = "draw"
    /\ frame_out' = [drawn  |-> TRUE,
                     aspect |-> window_aspect_ratio,
                     eye    |-> camera_position,
                     center |-> VAdd(camera_position, camera_forward),
                     up     |-> camera_up]
    /\ r_pc' = "begin"
    /\ UNCHANGED <<load_failure, library, order_history, shared, camera, window_aspect_ratio, delta_time, camera_forward,
                   camera_right, camera_up, context_size, viewport, frames,
                   event_locals, e_pc, w_pc, render_thread_healthy, history>>

\* main.rs 373-406 with util.rs 10-33: a GL error makes the debug callback
\* panic, or swap_buffers().unwrap() fails.
R_DrawPanic ==
    /\ Running /\ r_pc = "draw"
    /\ r_pc' = "panicked"
    /\ UNCHANGED <<load_failure, library, order_history, shared, camera, render_locals, event_locals, e_pc, w_pc,
                   render_thread_healthy, history>>

\* The render thread while nothing fails.
Render ==
    \/ R_Load \/ R_Begin \/ R_LockWindow \/ R_Resize
    \/ R_LockKeys \/ R_Keys \/ R_LockMouse \/ R_Mouse \/ R_Draw

\* -------------------------------------------------------------- watchdog
\* main.rs 419-426: join returns only when the render thread has panicked (its
\* loop never ends); the watchdog then writes false through the RwLock.
Watchdog ==
    /\ Running /\ w_pc = "join"
    /\ r_pc = "panicked"
    /\ render_thread_healthy' = FALSE
    /\ w_pc' = "done"
    /\ UNCHANGED <<load_failure, library, order_history, shared, camera, render_locals, event_locals, r_pc, e_pc, history>>

\* ------------------------------------------------------------ event loop
\* (mutant of health_check: the flag is not looked at)
health_check_skipped(healthy) == "Wait"

\* main.rs 430-437: *control_flow after the callback's first lines.
health_check(healthy) == IF healthy THEN "Wait" ELSE "Exit"

\* Where the event loop goes when the callback returns: el.run leaves the loop
\* (and ends the process) when *control_flow is Exit, else it waits again.
after_callback(cf) == IF cf = "Exit" THEN "exited" ELSE "wait"

\* An event arrives while the loop waits: the callback starts on it.
Arrives(limit) == e_pc = "wait" /\ events < limit

\* main.rs 440-441: WindowEvent::Resized
OnResized(w, h) ==
    /\ Arrives(MaxEvents)
    /\ events' = events + 1
    /\ control_flow' = health_check(render_thread_healthy)
    /\ event' = Resized(w, h)
    /\ e_pc' = "lock_ws"
    /\ h_resized' = h_resized + 1
    /\ UNCHANGED <<load_failure, library, order_history, shared, camera, render_locals, mouse_right_button_pressed, r_pc,
                   w_pc, render_thread_healthy, h_added, h_motion_held,
                   h_right_last, h_key_last, h_resizes, h_dropped, h_key_repeats>>

\* main.rs 442: arc_window_size.lock(); on Err the block is skipped.
E_LockWindow ==
    /\ e_pc = "lock_ws"
    /\ CanLock("window")
    /\ IF LockOk("window")
       THEN /\ mutex' = Acquire("window", "event")
            /\ e_pc' = "ws_cs"
            /\ event' = event
       ELSE /\ mutex' = mutex
            /\ e_pc' = after_callback(control_flow)
            /\ event' = NoEvent
    /\ UNCHANGED <<load_failure, library, order_history, pressed_keys, mouse_delta, window_size, poisoned, camera,
                   render_locals, mouse_right_button_pressed, events, control_flow,
                   r_pc, w_pc, render_thread_healthy, history>>

\* (mutant of store_size: a size that is still pending is kept)
store_size_first_wins(size, width, height) ==
    IF size[3] THEN size ELSE <<width, height, TRUE>>

\* main.rs 443: *new_size = (physical_size.width, physical_size.height, true)
store_size(size, width, height) == <<width, height, TRUE>>

\* main.rs 443-445: the new size is stored with the flag set; the guard drops.
E_Resize ==
    /\ e_pc = "ws_cs"
    /\ window_size' = store_size(window_size, event.width, event.height)
    /\ h_stored' = Append(h_stored, <<event.width, event.height>>)
    /\ mutex' = Release("window")
    /\ e_pc' = after_callback(control_flow)
    /\ event' = NoEvent
    /\ UNCHANGED <<load_failure, library, h_frame_start, h_applied, pressed_keys, mouse_delta, poisoned, camera, render_locals,
                   mouse_right_button_pressed, events, control_flow, r_pc, w_pc,
                   render_thread_healthy, history>>

\* main.rs 446-448: WindowEvent::CloseRequested
OnCloseRequested ==
    /\ Arrives(MaxEvents)
    /\ events' = events + 1
    /\ control_flow' = "Exit"
    /\ e_pc' = after_callback(control_flow')
    /\ event' = NoEvent
    /\ UNCHANGED <<load_failure, library, order_history, shared, camera, render_locals, mouse_right_button_pressed, r_pc,
                   w_pc, render_thread_healthy, history>>

\* main.rs 450-451: WindowEvent::KeyboardInput with Some(keycode)
OnKeyboardInput(key_state, keycode) ==
    /\ Arrives(MaxKeyEvents)
    /\ events' = events + 1
    /\ control_flow' = health_check(render_thread_healthy)
    /\ event' = KeyboardInput(key_state, keycode)
    /\ e_pc' = "lock_keys"
    /\ h_key_last' = [h_key_last EXCEPT ![keycode] = key_state]
    /\ h_key_repeats' = IF h_key_last[keycode] = key_state
                        THEN h_key_repeats + 1 ELSE h_key_repeats
    /\ UNCHANGED <<load_failure, library, order_history, shared, camera, render_locals, mouse_right_button_pressed, r_pc,
                   w_pc, render_thread_healthy, h_added, h_motion_held,
                   h_right_last, h_resized, h_resizes, h_dropped>>

\* keys.contains(&keycode)
Contains(keys, keycode) == \E i \in 1..Len(keys) : keys[i] = keycode

\* keys.iter().position(|&k| k == keycode).unwrap()
Position(keys, keycode) ==
    CHOOSE i \in 1..Len(keys) :
        keys[i] = keycode /\ \A j \in 1..(i - 1) : keys[j] # keycode

\* keys.remove(i)
Remove(keys, i) == SubSeq(keys, 1, i - 1) \o SubSeq(keys, i + 1, Len(keys))

\* main.rs 455-460: Released
key_released(keys, keycode) ==
    IF Contains(keys, keycode) THEN Remove(keys, Position(keys, keycode)) ELSE keys

\* (mutant of key_pressed: the key is pushed without the contains check)
key_pushed(keys, keycode) == Append(keys, keycode)

\* main.rs 461-465: Pressed
key_pressed(keys, keycode) ==
    IF ~Contains(keys, keycode) THEN Append(keys, keycode) ELSE keys

\* (mutant of exit_key: only Escape exits)
exit_key_escape_only(keycode, cf) == IF keycode = "Escape" THEN "Exit" ELSE cf

\* main.rs 470-474: Escape and Q
exit_key(keycode, cf) == IF keycode \in {"Escape", "Q"} THEN "Exit" ELSE cf

\* main.rs 453: arc_pressed_keys.lock(); on Err the list is left alone and the
\* match on Escape and Q (470-474) still runs.
E_LockKeys ==
    /\ e_pc = "lock_keys"
    /\ CanLock("keys")
    /\ IF LockOk("keys")
       THEN /\ mutex' = Acquire("keys", "event")
            /\ e_pc' = "keys_cs"
            /\ event' = event
            /\ control_flow' = control_flow
       ELSE /\ mutex' = mutex
            /\ control_flow' = exit_key(event.keycode, control_flow)
            /\ e_pc' = after_callback(control_flow')
            /\ event' = NoEvent
    /\ UNCHANGED <<load_failure, library, order_history, pressed_keys, mouse_delta, window_size, poisoned, camera,
                   render_locals, mouse_right_button_pressed, events, r_pc, w_pc,
                   render_thread_healthy, history>>

\* main.rs 454-474: the list is updated, the guard drops, Escape and Q exit.
E_Keys ==
    /\ e_pc = "keys_cs"
    /\ pressed_keys' = IF event.state = "Released"
                       THEN key_released(pressed_keys, event.keycode)
                       ELSE key_pressed(pressed_keys, event.keycode)
    /\ mutex' = Release("keys")
    /\ control_flow' = exit_key(event.keycode, control_flow)
    /\ e_pc' = after_callback(control_flow')
    /\ event' = NoEvent
    /\ UNCHANGED <<load_failure, library, order_history, mouse_delta, window_size, poisoned, camera, render_locals,
                   mouse_right_button_pressed, events, r_pc, w_pc,
                   render_thread_healthy, history>>

\* (mutant of right_button: every button counts as the look button)
any_button(pressed, button, state) == state = "Pressed"

\* main.rs 478-484: the flag after a MouseInput event
right_button(pressed, button, state) ==
    IF button = "Right" THEN state = "Pressed" ELSE pressed

\* main.rs 477-485: WindowEvent::MouseInput
OnMouseInput(button, state) ==
    /\ Arrives(MaxEvents)
    /\ events' = events + 1
    /\ control_flow' = health_check(render_thread_healthy)
    /\ mouse_right_button_pressed' = right_button(mouse_right_button_pressed, button, state)
    /\ e_pc' = after_callback(control_flow')
    /\ event' = NoEvent
    /\ h_right_last' = IF button = "Right" THEN state ELSE h_right_last
    /\ UNCHANGED <<load_failure, library, order_history, shared, camera, render_locals, r_pc, w_pc, render_thread_healthy,
                   h_added, h_motion_held, h_key_last, h_resized, h_resizes,
                   h_dropped, h_key_repeats>>

\* main.rs 487-494: DeviceEvent::MouseMotion; without the button the motion is
\* dropped and the callback returns.
OnMouseMotion(delta) ==
    /\ Arrives(MaxEvents)
    /\ events' = events + 1
    /\ control_flow' = health_check(render_thread_healthy)
    /\ IF mouse_right_button_pressed
       THEN event' = MouseMotion(delta) /\ e_pc' = "lock_mouse"
       ELSE event' = NoEvent /\ e_pc' = after_callback(control_flow')
    /\ h_motion_held' = IF h_right_last = "Pressed"
                        THEN <<h_motion_held[1] + delta[1], h_motion_held[2] + delta[2]>>
                        ELSE h_motion_held
    /\ h_dropped' = IF h_right_last = "Pressed"
                    THEN h_dropped
                    ELSE [amount |-> <<h_dropped.amount[1] + delta[1],
                                       h_dropped.amount[2] + delta[2]>>,
                          frame  |-> frames]
    /\ UNCHANGED <<load_failure, library, order_history, shared, camera, render_locals, mouse_right_button_pressed, r_pc,
                   w_pc, render_thread_healthy, h_added, h_right_last, h_key_last,
                   h_resized, h_resizes, h_key_repeats>>

\* main.rs 495: arc_mouse_delta.lock(); on Err the block is skipped.
E_LockMouse ==
    /\ e_pc = "lock_mouse"
    /\ CanLock("mouse")
    /\ IF LockOk("mouse")
       THEN /\ mutex' = Acquire("mouse", "event")
            /\ e_pc' = "mouse_cs"
            /\ event' = event
       ELSE /\ mutex' = mutex
            /\ e_pc' = after_callback(control_flow)
            /\ event' = NoEvent
    /\ UNCHANGED <<load_failure, library, order_history, pressed_keys, mouse_delta, window_size, poisoned, camera,
                   render_locals, mouse_right_button_pressed, events, control_flow,
                   r_pc, w_pc, render_thread_healthy, history>>

\* (mutant of delta_add: the new motion replaces what was pending)
delta_overwrite(acc, delta) == delta

\* main.rs 497-498
delta_add(acc, delta) == <<acc[1] + delta[1], acc[2] + delta[2]>>

\* main.rs 496-499: the motion is added to the shared delta; the guard drops.
E_Mouse ==
    /\ e_pc = "mouse_cs"
    /\ mouse_delta' = delta_add(mouse_delta, event.delta)
    /\ h_added' = <<h_added[1] + event.delta[1], h_added[2] + event.delta[2]>>
    /\ mutex' = Release("mouse")
    /\ e_pc' = after_callback(control_flow)
    /\ event' = NoEvent
    /\ UNCHANGED <<load_failure, library, order_history, pressed_keys, window_size, poisoned, camera, render_locals,
                   mouse_right_button_pressed, events, control_flow, r_pc, w_pc,
                   render_thread_healthy, h_motion_held, h_right_last, h_key_last,
                   h_resized, h_resizes, h_dropped, h_key_repeats>>

\* main.rs 502: any other event
OnOtherEvent ==
    /\ Arrives(MaxEvents)
    /\ events' = events + 1
    /\ control_flow' = health_check(render_thread_healthy)
    /\ e_pc' = after_callback(control_flow')
    /\ event' = NoEvent
    /\ UNCHANGED <<load_failure, library, order_history, shared, camera, render_locals, mouse_right_button_pressed, r_pc,
                   w_pc, render_thread_healthy, history>>

\* ------------------------------------------------ OpenGL helpers of util.rs
\* (mutant of debug_callback: an error panics whatever its severity)
debug_callback_any_severity(source, e_type, id, severity) ==
    IF e_type # "DEBUG_TYPE_ERROR" THEN "return" ELSE "panic"

\* util.rs 10-33: what a call of the callback does, "panic" or "return".
debug_callback(source, e_type, id, severity) ==
    IF e_type # "DEBUG_TYPE_ERROR" THEN "return"
    ELSE IF \/ severity = "DEBUG_SEVERITY_HIGH"
            \/ severity = "DEBUG_SEVERITY_MEDIUM"
            \/ severity = "DEBUG_SEVERITY_LOW"
         THEN "panic"
         ELSE "return"

\* util.rs 243: if colors.len() % 4 == 0 { 4 } else { 3 }
color_components_per_vertex(colors) == IF Len(colors) % 4 = 0 THEN 4 ELSE 3

\* util.rs 241-254: the color attribute create_vao configures: none for an
\* empty buffer, else attribute 1 with the component count and a stride of
\* that many f32.
create_vao(colors) ==
    IF colors = <<>>
    THEN [enabled |-> FALSE]
    ELSE [enabled |-> TRUE,
          index   |-> 1,
          size    |-> color_components_per_vertex(colors),
          stride  |-> color_components_per_vertex(colors) * 4]

\* ------------------------------------------- the library, called alone
\* Everything the program's three threads own.
program == <<shared, camera, render_locals, event_locals, r_pc, e_pc, w_pc,
             render_thread_healthy, history, order_history, load_failure>>
traversal == <<scene, stack, visited, draw_commands>>

\* Angles: the quarter turns, where the fixed-point sin and cos are exact.
Angles == {0, FRAC_PI_2, PI, -FRAC_PI_2}
Rotations == {Vec3(x, y, z) : x \in Angles, y \in Angles, z \in Angles}
\* Rotations given to a billboard on top of its turn to the camera.
BillboardRotations ==
    {Vec3(0, 0, 0), Vec3(0, PI, 0), Vec3(FRAC_PI_2, 0, FRAC_PI_2),
     Vec3(0, FRAC_PI_2, -FRAC_PI_2)}
\* Flat vertex lists: two vertices, one vertex, two vertices and a stray float.
VertexLists ==
    {<<ONE, 0, 0, 0, ONE, 0>>, <<ONE, 2 * ONE, 3 * ONE>>,
     <<0, 0, ONE, ONE, ONE, 0, ONE \div 2>>}
Positions == {Vec3(0, 0, 0), Vec3(ONE, 2 * ONE, 0)}
Scales == {Vec3(ONE, ONE, ONE), Vec3(2 * ONE, ONE, 3 * ONE)}
\* View-projection matrices: the identity, and one that turns, stretches,
\* shifts and has a perspective row.
ViewProjections ==
    {Identity4,
     <<<<0, -ONE, 0, 2 * ONE>>, <<ONE, 0, 0, 0>>, <<0, 0, 2 * ONE, -ONE>>,
       <<0, 0, -ONE, 0>>>>}
\* Where the camera is, seen from the billboard: two units along an axis.
CameraOffsets ==
    {Vec3(0, 0, 2 * ONE), Vec3(2 * ONE, 0, 0), Vec3(0, 2 * ONE, 0),
     Vec3(0, 0, -2 * ONE), Vec3(-2 * ONE, 0, 0), Vec3(0, -2 * ONE, 0)}
\* Elapsed times, in 1/10000 s, up to ten seconds.
ElapsedTimes == {0, 5000, 12345, FRAC_PI_2, PI, 50000, TAU, 70000, 10 * ONE}

\* A call of util::rotate_vertices.
Call_rotate_vertices ==
    /\ call.fn = "none"
    /\ \E vertices \in VertexLists, rotation \in Rotations :
          /\ call' = [fn |-> "rotate_vertices", vertices |-> vertices,
                      rotation |-> rotation]
          /\ ret' = rotate_vertices(vertices, rotation[1], rotation[2], rotation[3])
    /\ UNCHANGED <<program, traversal>>

\* A call of util::calculate_transformation_object.
Call_calculate_transformation_object ==
    /\ call.fn = "none"
    /\ \E position \in Positions, rotation \in Rotations, scale \in Scales,
          view_projection_matrix \in ViewProjections :
          /\ call' = [fn |-> "calculate_transformation_object",
                      position |-> position, rotation |-> rotation, scale |-> scale,
                      view_projection_matrix |-> view_projection_matrix]
          /\ ret' = calculate_transformation_object(position, rotation, scale,
                                                     view_projection_matrix)
    /\ UNCHANGED <<program, traversal>>

\* A call of util::calculate_transformation_billboard.
Call_calculate_transformation_billboard ==
    /\ call.fn = "none"
    /\ \E position \in Positions, rotation \in BillboardRotations, scale \in Scales,
          offset \in CameraOffsets, view_projection_matrix \in ViewProjections :
          /\ call' = [fn |-> "calculate_transformation_billboard",
                      position |-> position, rotation |-> rotation, scale |-> scale,
                      camera_pos |-> VAdd(position, offset),
                      view_projection_matrix |-> view_projection_matrix]
          /\ ret' = calculate_transformation_billboard(
                        position, rotation, scale, VAdd(position, offset),
                        view_projection_matrix)
    /\ UNCHANGED <<program, traversal>>

\* main.rs 240-368: the matrices one frame builds for the orca and for the
\* particles, from the elapsed time, the camera position and view_projection.
FrameMatrices ==
    /\ call.fn = "none"
    /\ \E elapsed \in ElapsedTimes, offset \in CameraOffsets,
          view_projection_matrix \in ViewProjections :
          /\ call' = [fn |-> "frame", elapsed |-> elapsed,
                      camera_pos |-> VAdd(particles_position, offset),
                      view_projection_matrix |-> view_projection_matrix]
          /\ ret' = [orca_rotation_y |-> orca_rotation_y(elapsed),
                     view_projection_matrix_orca |->
                         view_projection_matrix_orca(view_projection_matrix, elapsed),
                     particles_rotation_animation_matrix |->
                         particles_rotation_animation_matrix(
                             VAdd(particles_position, offset)),
                     view_projection_matrix_particles |->
                         view_projection_matrix_particles(
                             view_projection_matrix,
                             VAdd(particles_position, offset), elapsed)]
    /\ UNCHANGED <<program, traversal>>

\* The call returns and its result is dropped.
Return ==
    /\ call.fn # "none"
    /\ call' = [fn |-> "none"]
    /\ ret' = <<>>
    /\ UNCHANGED <<program, traversal>>

\* The messages the GL can hand to the callback: the message types and
\* severities of the debug output, a severity value that is none of them, the
\* message sources, two ids.
DebugTypes ==
    {"DEBUG_TYPE_ERROR", "DEBUG_TYPE_DEPRECATED_BEHAVIOR",
     "DEBUG_TYPE_UNDEFINED_BEHAVIOR", "DEBUG_TYPE_PORTABILITY",
     "DEBUG_TYPE_PERFORMANCE", "DEBUG_TYPE_MARKER", "DEBUG_TYPE_OTHER"}
DebugSeverities ==
    {"DEBUG_SEVERITY_HIGH", "DEBUG_SEVERITY_MEDIUM", "DEBUG_SEVERITY_LOW",
     "DEBUG_SEVERITY_NOTIFICATION", "DONT_CARE"}
DebugSources ==
    {"DEBUG_SOURCE_API", "DEBUG_SOURCE_SHADER_COMPILER", "DEBUG_SOURCE_OTHER"}
DebugIds == {0, 1}

\* The GL calls util::debug_callback with a message.
Call_debug_callback ==
    /\ call.fn = "none"
    /\ \E source \in DebugSources, e_type \in DebugTypes, id \in DebugIds,
          severity \in DebugSeverities :
          /\ call' = [fn |-> "debug_callback", source |-> source, e_type |-> e_type,
                      id |-> id, severity |-> severity]
          /\ ret' = debug_callback(source, e_type, id, severity)
    /\ UNCHANGED <<program, traversal>>

\* The color buffers: what the caller put in (RGB or RGBA values per vertex)
\* and the flat list of f32 it makes, for up to MaxVertices vertices.
ColorLayouts == {"RGB", "RGBA"}
ComponentsOf(layout) == IF layout = "RGBA" THEN 4 ELSE 3
ColorBuffers ==
    {[layout |-> layout, vertices |-> n,
      colors |-> [i \in 1..(n * ComponentsOf(layout)) |-> ONE]] :
        layout \in ColorLayouts, n \in 0..MaxVertices}

\* A call of util::create_vao.
Call_create_vao ==
    /\ call.fn = "none"
    /\ \E buffer \in ColorBuffers :
          /\ call' = [fn |-> "create_vao", layout |-> buffer.layout,
                      vertices |-> buffer.vertices, colors |-> buffer.colors]
          /\ ret' = create_vao(buffer.colors)
    /\ UNCHANGED <<program, traversal>>

\* ------------------------------------------------------ scene traversal
\* The scene graph and its traversal are not in gloom-rs/src; they are modelled
\* from the specification (sections 3 and 4.2).
\* A SceneNode: position, rotation, scale, referencePoint.
SceneNode(position, rotation, scale, referencePoint) ==
    [position |-> position, rotation |-> rotation, scale |-> scale,
     referencePoint |-> referencePoint]

\* The pivot-aware local transform (section 4.1):
\* T(position) * T(referencePoint) * R(rotation) * T(-referencePoint) * S(scale),
\* with R = Rz * Ry * Rx.
localTransform(node) ==
    LET r == MatMul(MatMul(glm_rotation(node.rotation[3], Vec3(0, 0, ONE)),
                           glm_rotation(node.rotation[2], Vec3(0, ONE, 0))),
                    glm_rotation(node.rotation[1], Vec3(ONE, 0, 0)))
    IN  MatMul(MatMul(MatMul(MatMul(glm_translation(node.position),
                                    glm_translation(node.referencePoint)),
                             r),
                      glm_translation(VNeg(node.referencePoint))),
               glm_scaling(node.scale))

\* worldTransform = accumulatedTransform * localTransform(node)
worldTransform(accumulatedTransform, node) ==
    MatMul(accumulatedTransform, localTransform(node))

\* The names of the nodes, and the shapes of the tree: the children of each
\* node in insertion order.
NodeNames == {"root", "A", "A1", "B"}
Shapes ==
    {[root |-> <<"A", "B">>, A |-> <<"A1">>, A1 |-> <<>>, B |-> <<>>],
     [root |-> <<"B", "A">>, A |-> <<"A1">>, A1 |-> <<>>, B |-> <<>>],
     [root |-> <<"A">>, A |-> <<"A1", "B">>, A1 |-> <<>>, B |-> <<>>],
     [root |-> <<"A">>, A |-> <<"A1">>, A1 |-> <<"B">>, B |-> <<>>]}
\* The local transform parameters of the nodes: one with turns, pivots and a
\* scale, one with translations only.
Poses ==
    {[root |-> SceneNode(Vec3(ONE, 0, 0), Vec3(0, FRAC_PI_2, 0),
                         Vec3(ONE, ONE, ONE), Vec3(0, 0, 0)),
      A    |-> SceneNode(Vec3(0, ONE, 0), Vec3(FRAC_PI_2, 0, 0),
                         Vec3(2 * ONE, 2 * ONE, 2 * ONE), Vec3(ONE, 0, 0)),
      A1   |-> SceneNode(Vec3(0, 0, ONE), Vec3(0, 0, 0),
                         Vec3(ONE, ONE, ONE), Vec3(0, 0, 0)),
      B    |-> SceneNode(Vec3(-ONE, 0, 0), Vec3(0, 0, FRAC_PI_2),
                         Vec3(ONE, ONE, ONE), Vec3(0, ONE, 0))],
     [root |-> SceneNode(Vec3(0, 0, 0), Vec3(0, 0, 0),
                         Vec3(ONE, ONE, ONE), Vec3(0, 0, 0)),
      A    |-> SceneNode(Vec3(ONE, 0, 0), Vec3(0, 0, 0),
                         Vec3(ONE, ONE, ONE), Vec3(0, 0, 0)),
      A1   |-> SceneNode(Vec3(0, ONE, 0), Vec3(0, 0, 0),
                         Vec3(ONE, ONE, ONE), Vec3(0, 0, 0)),
      B    |-> SceneNode(Vec3(0, 0, ONE), Vec3(0, 0, 0),
                         Vec3(ONE, ONE, ONE), Vec3(0, 0, 0))]}

\* Scene construction: the tree is built once, each node with or without a
\* drawable.
BuildScene ==
    /\ scene = <<>>
    /\ \E shape \in Shapes, pose \in Poses, drawables \in SUBSET NodeNames,
          viewProjection \in ViewProjections :
          scene' = [children |-> shape, node |-> pose, drawable |-> drawables,
                    viewProjection |-> viewProjection]
    /\ UNCHANGED <<program, call, ret, stack, visited, draw_commands>>

\* traverse(root, viewProjection, identity) is called.
TraverseRoot ==
    /\ scene # <<>>
    /\ stack = <<>> /\ visited = <<>>
    /\ stack' = <<[node |-> "root", accumulatedTransform |-> Identity4]>>
    /\ UNCHANGED <<program, call, ret, scene, visited, draw_commands>>

\* (mutant of pending_calls: the children are visited after everything that
\* was already pending)
pending_calls_breadth_first(pending, children, world) ==
    pending \o [i \in 1..Len(children) |->
                  [node |-> children[i], accumulatedTransform |-> world]]

\* The calls of traverse still to make once a node is visited: its children in
\* insertion order, each with the node's world transform, before the calls
\* that were pending.
pending_calls(pending, children, world) ==
    [i \in 1..Len(children) |->
        [node |-> children[i], accumulatedTransform |-> world]] \o pending

\* (mutant of yield_draw: every node yields a draw command)
yield_draw_always(commands, has_drawable, name, world, viewProjection) ==
    Append(commands, [drawable |-> name, model |-> world,
                      mvp |-> MatMul(viewProjection, world)])

\* The draw commands after a node is visited: one more, carrying (drawable,
\* worldTransform, viewProjection * worldTransform), if the node has a drawable.
yield_draw(commands, has_drawable, name, world, viewProjection) ==
    IF has_drawable
    THEN Append(commands, [drawable |-> name, model |-> world,
                           mvp |-> MatMul(viewProjection, world)])
    ELSE commands

\* One call of traverse(node, viewProjection, accumulatedTransform): the world
\* transform is computed, the draw command is yielded, the calls for the
\* children are next.
TraverseNode ==
    /\ stack # <<>>
    /\ \E frame \in {Head(stack)} :
       \E world \in {worldTransform(frame.accumulatedTransform, scene.node[frame.node])} :
          /\ visited' = Append(visited, [node |-> frame.node,
                                          accumulatedTransform |-> frame.accumulatedTransform,
                                          worldTransform |-> world])
          /\ draw_commands' = yield_draw(draw_commands, frame.node \in scene.drawable,
                                         frame.node, world, scene.viewProjection)
          /\ stack' = pending_calls(Tail(stack), scene.children[frame.node], world)
    /\ UNCHANGED <<program, call, ret, scene>>

\* --------------------------------------------------------- specifications
ResizeLoop == E_LockWindow \/ E_Resize
KeysLoop == E_LockKeys \/ E_Keys
MouseLoop == E_LockMouse \/ E_Mouse

\* The inputs of the specification of everything: one of each kind.
SpecKeyCodes == {"W", "Escape"}
SpecMotions == {<<400, -400>>}
SpecSizes == {<<1280, 720>>}

\* Everything: the three threads and every kind of event.
Next ==
    \/ Render
    \/ R_LoadFailure \/ R_ResizePanic \/ R_DrawPanic
    \/ Watchdog
    \/ \E sz \in SpecSizes : OnResized(sz[1], sz[2])
    \/ OnCloseRequested
    \/ \E s \in ElementStates, k \in SpecKeyCodes : OnKeyboardInput(s, k)
    \/ \E s \in ElementStates : OnMouseInput("Right", s)
    \/ \E d \in SpecMotions : OnMouseMotion(d)
    \/ OnOtherEvent
    \/ ResizeLoop \/ KeysLoop \/ MouseLoop

Spec == Init /\ [][Next]_vars

\* The mouse: button and motion events.
NextMouse ==
    \/ Render
    \/ R_LoadFailure \/ R_DrawPanic
    \/ Watchdog
    \/ \E b \in MouseButtons, s \in ElementStates : OnMouseInput(b, s)
    \/ \E d \in Motions : OnMouseMotion(d)
    \/ MouseLoop

SpecMouse == Init /\ [][NextMouse]_vars

\* The keyboard: key events of the movement keys and of one unbound key.
NextKeys ==
    \/ Render
    \/ R_LoadFailure \/ R_DrawPanic
    \/ Watchdog
    \/ \E s \in ElementStates, k \in MoveKeys \cup {"E"} : OnKeyboardInput(s, k)
    \/ KeysLoop

SpecKeys == Init /\ [][NextKeys]_vars

\* The window: Resized events, while nothing fails inside the resize block.
NextResize ==
    \/ Render
    \/ R_LoadFailure \/ R_DrawPanic
    \/ Watchdog
    \/ \E sz \in Sizes : OnResized(sz[1], sz[2])
    \/ ResizeLoop

SpecResize == Init /\ [][NextResize]_vars

\* The health of the render thread: the events that touch no shared value.
NextHealth ==
    \/ Render
    \/ R_LoadFailure \/ R_ResizePanic \/ R_DrawPanic
    \/ Watchdog
    \/ \E sz \in SpecSizes : OnResized(sz[1], sz[2])
    \/ OnCloseRequested
    \/ OnOtherEvent
    \/ ResizeLoop

\* Scheduling: a thread that can take a step takes it (the watchdog, the render
\* thread, a callback that has started).  Nothing makes an event arrive: under
\* ControlFlow::Wait the loop sleeps until the windowing system has one.
EventLoopSteps == ResizeLoop \/ KeysLoop \/ MouseLoop

SpecHealth ==
    /\ Init /\ [][NextHealth]_vars
    /\ WF_vars(Watchdog)
    /\ WF_vars(Render)
    /\ WF_vars(EventLoopSteps)

\* The mouse, with the scheduling the threads have: the render thread takes its
\* next step while nothing fails, and a callback that has started goes on.
LookMotions == {<<400, -400>>, <<-100, 100>>}

NextLook ==
    \/ Render
    \/ \E s \in ElementStates : OnMouseInput("Right", s)
    \/ \E d \in LookMotions : OnMouseMotion(d)
    \/ MouseLoop

SpecMouseFair ==
    /\ Init /\ [][NextLook]_vars
    /\ WF_vars(Render)
    /\ WF_vars(MouseLoop)

\* The window, with the scheduling the threads have.
NextWindow ==
    \/ Render
    \/ R_ResizePanic
    \/ \E sz \in Sizes : OnResized(sz[1], sz[2])
    \/ ResizeLoop

SpecWindowFair ==
    /\ Init /\ [][NextWindow]_vars
    /\ WF_vars(Render)
    /\ WF_vars(ResizeLoop)

\* Leaving: every kind of event, with both exit keys and a movement key.
ExitSpecKeyCodes == {"W", "Escape", "Q"}

NextExit ==
    \/ Render
    \/ R_DrawPanic
    \/ Watchdog
    \/ \E sz \in SpecSizes : OnResized(sz[1], sz[2])
    \/ OnCloseRequested
    \/ OnOtherEvent
    \/ \E s \in ElementStates, k \in ExitSpecKeyCodes : OnKeyboardInput(s, k)
    \/ \E b \in MouseButtons, s \in ElementStates : OnMouseInput(b, s)
    \/ \E d \in SpecMotions : OnMouseMotion(d)
    \/ ResizeLoop \/ KeysLoop \/ MouseLoop

SpecExit == Init /\ [][NextExit]_vars

\* The library functions and the frame's matrices, each called on its own.
NextLibrary ==
    \/ Call_rotate_vertices
    \/ Call_calculate_transformation_object
    \/ Call_calculate_transformation_billboard
    \/ FrameMatrices
    \/ Return

SpecLibrary == Init /\ [][NextLibrary]_vars

\* The OpenGL helpers, each called on its own.
NextGl == Call_debug_callback \/ Call_create_vao \/ Return

SpecGl == Init /\ [][NextGl]_vars

\* The scene graph: construction, then one traversal.
NextTraversal == BuildScene \/ TraverseRoot \/ TraverseNode

SpecTraversal == Init /\ [][NextTraversal]_vars

\* ================================================================ claims

\* C1: once the render thread has panicked, the event loop eventually has its
\* control flow at Exit (no run leaves the render thread dead and the event
\* loop waiting for ever).
C1_PanicLeadsToExit == (r_pc = "panicked") ~> (control_flow = "Exit")

\* The steps of the render thread that end a lock block.
MouseBlockEnds == r_pc = "mouse_cs" /\ r_pc' # "mouse_cs"
KeysBlockEnds == r_pc = "keys_cs" /\ r_pc' # "keys_cs"
ResizeBlockEnds == r_pc = "ws_cs" /\ r_pc' # "ws_cs"

\* C2: every frame's mouse block turns the whole shared delta into yaw and pitch
\* and leaves it at (0,0) in that same critical section; so the yaw is at all
\* times the sensitivity times what the event loop has added and is no longer
\* pending: nothing is applied a second time.
C2_Applied == camera_yaw = mouse_sensitivity * (h_added[1] - mouse_delta[1])
C2_Drain ==
    MouseBlockEnds =>
        /\ mutex["mouse"] = "render"
        /\ camera_yaw' = camera_yaw + mouse_delta[1] * mouse_sensitivity
        /\ mouse_delta' = <<0, 0>>
        /\ mutex'["mouse"] = "free"
\* C2: each amount of mouse motion is applied to the camera at most once: the
\* accounting C2_Applied always holds and every mouse block is a C2_Drain.
C2_MouseDeltaAppliedOnce == []C2_Applied /\ [][C2_Drain]_vars

\* C2 witness: a second frame has run its mouse block after the first frame
\* applied a delta (the second frame's basis already shows the turn).
C2_Witness ==
    /\ frames = 2 /\ r_pc = "draw"
    /\ camera_forward # Vec3(ONE, 0, 0)
    /\ h_added[1] # 0 /\ mouse_delta = <<0, 0>>

\* C3: the mouse block stores pitch = clamp(pitch - dy*sensitivity, -pi/2, pi/2):
\* the bound itself when the raw value passes it, the raw value otherwise; the
\* pitch is always within the bounds; the block never fails; yaw gets
\* dx*sensitivity added and is not clamped.
C3_InRange == -FRAC_PI_2 <= camera_pitch /\ camera_pitch <= FRAC_PI_2
C3_Step ==
    MouseBlockEnds =>
        LET raw == camera_pitch - mouse_delta[2] * mouse_sensitivity
        IN  /\ raw > FRAC_PI_2 => camera_pitch' = FRAC_PI_2
            /\ raw < -FRAC_PI_2 => camera_pitch' = -FRAC_PI_2
            /\ (-FRAC_PI_2 <= raw /\ raw <= FRAC_PI_2) => camera_pitch' = raw
            /\ camera_yaw' = camera_yaw + mouse_delta[1] * mouse_sensitivity
            /\ r_pc' = "draw"
\* C3: the stored pitch is always the clamped pitch: C3_InRange always holds
\* and every mouse block is a C3_Step.
C3_PitchClamped == []C3_InRange /\ [][C3_Step]_vars

\* C3 witness: the pitch stands at the upper bound (which no sum of motions
\* equals, so it was clamped) and the yaw is beyond a quarter turn.
C3_Witness == camera_pitch = FRAC_PI_2 /\ camera_yaw > FRAC_PI_2

\* C4: the pitch is always strictly inside (-pi/2, pi/2), never at a bound.
C4_PitchStrictlyInside == -FRAC_PI_2 < camera_pitch /\ camera_pitch < FRAC_PI_2

\* C5: the resize flag is a one-shot edge.  The event loop stores each Resized
\* event's size with the flag set; the flag is cleared only by the render
\* thread's resize block, holding the mutex, in the block that sees it set, and
\* together with context.resize and gl::Viewport for the stored size; the number
\* of resizes made, plus one if the flag is set, never exceeds the number of
\* Resized events.
C5_AtMostOnce ==
    h_resizes + (IF window_size[3] THEN 1 ELSE 0) <= h_resized
C5_Step ==
    /\ (e_pc = "lock_ws" /\ e_pc' # "lock_ws") => e_pc' = "ws_cs"
    /\ (e_pc = "ws_cs" /\ e_pc' # "ws_cs") =>
           window_size' = <<event.width, event.height, TRUE>>
    /\ (ResizeBlockEnds /\ window_size[3]) => ~window_size'[3]
    /\ (window_size[3] /\ ~window_size'[3]) =>
           /\ ResizeBlockEnds
           /\ mutex["window"] = "render"
           /\ context_size' = <<window_size[1], window_size[2]>>
           /\ viewport' = <<window_size[1], window_size[2]>>
    /\ (context_size' # context_size \/ viewport' # viewport) =>
           (window_size[3] /\ ~window_size'[3])
C6_AspectFollowsResize ==
    (r_pc = "begin" /\ frame_out.drawn /\ h_resizes > 0) =>
        frame_out.aspect[1] * context_size[2] = frame_out.aspect[2] * context_size[1]

\* The motion of the event the callback is still handling.
MotionInFlight ==
    IF e_pc \in {"lock_mouse", "mouse_cs"} THEN event.delta ELSE <<0, 0>>

\* C7: the look button counts as held exactly when the latest Right-button
\* event was Pressed (events of other buttons change nothing); what the event
\* loop adds to the shared delta is exactly the motion delivered while it was
\* held; motion delivered otherwise never reaches yaw or pitch.
C7_OnlyWhileHeld ==
    /\ mouse_right_button_pressed = (h_right_last = "Pressed")
    /\ h_added[1] + MotionInFlight[1] = h_motion_held[1]
    /\ h_added[2] + MotionInFlight[2] = h_motion_held[2]
    /\ camera_yaw =
           mouse_sensitivity * (h_motion_held[1] - MotionInFlight[1] - mouse_delta[1])
    /\ h_motion_held = <<0, 0>> =>
           (camera_yaw = 0 /\ camera_pitch = 0 /\ mouse_delta = <<0, 0>>)

\* C7 witness: motion arrived after the button was released, and a later frame
\* has run its mouse block; the camera has not turned.
C7_Witness ==
    /\ h_right_last = "Released"
    /\ h_dropped.amount # <<0, 0>>
    /\ frames > h_dropped.frame /\ r_pc = "draw"
    /\ camera_yaw = 0 /\ camera_pitch = 0

\* The set of keys in the shared list.
HeldKeys == {pressed_keys[i] : i \in 1..Len(pressed_keys)}

\* The movement the claim gives a key: W/S +/-forward, A/D +/-right,
\* Space/LShift +/-up, each times speed*deltaTime; nothing for any other key.
ClaimedMovement(key) ==
    LET step(v) == VScale(v, camera_speed * delta_time, 1000)
    IN  CASE key = "W"      -> step(camera_forward)
          [] key = "S"      -> VNeg(step(camera_forward))
          [] key = "A"      -> step(camera_right)
          [] key = "D"      -> VNeg(step(camera_right))
          [] key = "Space"  -> step(camera_up)
          [] key = "LShift" -> VNeg(step(camera_up))
          [] OTHER          -> Vec3(0, 0, 0)

RECURSIVE SumOver(_)
\* The sum of the claimed movements of a set of keys.
SumOver(keys) ==
    IF keys = {} THEN Vec3(0, 0, 0)
    ELSE LET k == CHOOSE x \in keys : TRUE
         IN  VAdd(ClaimedMovement(k), SumOver(keys \ {k}))

\* C8: a frame's keyboard block moves the camera by exactly the sum of the
\* movement vectors of the keys in the held-key set (so opposite keys cancel,
\* and with no movement key held the position stays).
C8_Step ==
    KeysBlockEnds =>
        /\ camera_position' = VAdd(camera_position, SumOver(HeldKeys))
        /\ (HeldKeys \cap MoveKeys = {}) => camera_position' = camera_position
        /\ (HeldKeys = {"W", "S"} \/ HeldKeys = {"A", "D"}
                \/ HeldKeys = {"Space", "LShift"}) => camera_position' = camera_position
\* C8: every keyboard block moves the camera by the sum of the held keys'
\* movement vectors: every step is a C8_Step.
C8_PositionIsSumOfKeys == [][C8_Step]_vars

\* C8 witness: two keys are held and a keyboard block has moved the camera
\* along two axes at once.
C8_Witness ==
    /\ r_pc = "lock_mouse" /\ Len(pressed_keys) = 2
    /\ camera_position[1] # 0 /\ camera_position[3] # ONE

\* C9: whenever no key event is being handled, the shared list holds exactly
\* the keys whose latest event was Pressed; it never holds a key twice; a
\* Pressed for a key in the list and a Released for a key not in it leave the
\* list as it is.
C9_Exact ==
    /\ Cardinality(HeldKeys) = Len(pressed_keys)
    /\ e_pc \notin {"lock_keys", "keys_cs"} =>
           HeldKeys = {k \in KeyCodes : h_key_last[k] = "Pressed"}
C9_Step ==
    (e_pc = "keys_cs" /\ e_pc' # "keys_cs") =>
        /\ (event.state = "Pressed" /\ event.keycode \in HeldKeys) =>
               pressed_keys' = pressed_keys
        /\ (event.state = "Released" /\ event.keycode \notin HeldKeys) =>
               pressed_keys' = pressed_keys
\* C9: the shared list is exactly the set of keys last Pressed, without
\* duplicates: C9_Exact always holds and every step is a C9_Step.
C9_PressedKeysExact == []C9_Exact /\ [][C9_Step]_vars

\* C9 witness: a key event that repeated its key's latest state has been
\* handled, and a key is held.
C9_Witness ==
    /\ h_key_repeats > 0 /\ e_pc = "wait"
    /\ Len(pressed_keys) = 1
    /\ h_key_last[pressed_keys[1]] = "Pressed"

\* Who is inside the lock block of a mutex.
RenderIn(m) ==
    r_pc = (CASE m = "window" -> "ws_cs" [] m = "keys" -> "keys_cs" [] m = "mouse" -> "mouse_cs")
EventIn(m) ==
    e_pc = (CASE m = "window" -> "ws_cs" [] m = "keys" -> "keys_cs" [] m = "mouse" -> "mouse_cs")

\* C10: the two threads are never both inside the lock block of one mutex; a
\* thread is inside a block exactly while it owns the mutex; each shared value
\* changes only in a step of the thread that owns its mutex, and the camera
\* values computed from a shared value change only while the render thread owns
\* that value's mutex.
C10_Exclusive ==
    \A m \in {"keys", "mouse", "window"} :
        /\ ~(RenderIn(m) /\ EventIn(m))
        /\ RenderIn(m) <=> mutex[m] = "render"
        /\ EventIn(m) <=> mutex[m] = "event"
C10_Step ==
    /\ pressed_keys' # pressed_keys => (mutex["keys"] = "event" /\ e_pc' # e_pc)
    /\ mouse_delta' # mouse_delta =>
           \/ mutex["mouse"] = "event" /\ e_pc' # e_pc
           \/ mutex["mouse"] = "render" /\ r_pc' # r_pc
    /\ window_size' # window_size =>
           \/ mutex["window"] = "event" /\ e_pc' # e_pc
           \/ mutex["window"] = "render" /\ r_pc' # r_pc
    /\ camera_position' # camera_position => mutex["keys"] = "render"
    /\ (camera_yaw' # camera_yaw \/ camera_pitch' # camera_pitch) =>
           mutex["mouse"] = "render"
    /\ (context_size' # context_size \/ viewport' # viewport) =>
           mutex["window"] = "render"
\* C10: each shared value is read and written only under its own mutex:
\* C10_Exclusive always holds and every step is a C10_Step.
C10_MutualExclusion == []C10_Exclusive /\ [][C10_Step]_vars

\* C10 witness: the event loop waits for the mouse mutex while the render
\* thread is inside its mouse block.
C10_Witness == r_pc = "mouse_cs" /\ e_pc = "lock_mouse" /\ mutex["mouse"] = "render"

\* A step of the render thread, and a step of the event loop.
RenderStep == r_pc' # r_pc
EventStep == e_pc' # e_pc \/ events' # events

\* C11: a step that changes the camera position, yaw or pitch is a step of the
\* render thread inside its keyboard or mouse block; a step that changes the
\* look-button flag is the start of an event callback; a step of the event loop
\* leaves everything the render thread owns as it is, and a step of the render
\* thread leaves the pressed-key list and everything the event loop owns as it
\* is.
C11_Step ==
    /\ camera' # camera => RenderStep /\ ~EventStep /\ r_pc \in {"keys_cs", "mouse_cs"}
    /\ mouse_right_button_pressed' # mouse_right_button_pressed
           => events' = events + 1 /\ ~RenderStep
    /\ EventStep => UNCHANGED <<camera, render_locals>>
    /\ RenderStep => UNCHANGED <<pressed_keys, event_locals>>
\* C11: the camera is written only by the render thread, the look-button flag
\* only by the event loop, and the render thread never modifies the pressed-key
\* list: every step is a C11_Step.
C11_OwnedByOneTask == [][C11_Step]_vars

\* C11 witness: the event loop has set the look-button flag and filled the key
\* list, and the render thread has read the list and moved the camera.
C11_Witness ==
    /\ r_pc = "lock_mouse"
    /\ pressed_keys = <<"W">>
    /\ mouse_right_button_pressed
    /\ camera_position # Vec3(0, 0, ONE)

\* C12: after any failure to load a mesh or to read, classify, compile or link a
\* shader, the render thread has panicked before its loop: no frame was begun
\* and none was drawn.
C12_LoadFailureIsFatal ==
    load_failure \in {"mesh", "extension", "read", "compile", "link"}
        => r_pc = "panicked" /\ frames = 0 /\ ~frame_out.drawn

\* What the claims about the matrices say, in terms of single vectors.
\* The vector turned by the angle about the X, the Y and the Z axis.
AboutX(v, angle) ==
    <<v[1],
      FMul(v[2], Cos(angle)) - FMul(v[3], Sin(angle)),
      FMul(v[2], Sin(angle)) + FMul(v[3], Cos(angle))>>
AboutY(v, angle) ==
    <<FMul(v[1], Cos(angle)) + FMul(v[3], Sin(angle)),
      v[2],
      FMul(v[3], Cos(angle)) - FMul(v[1], Sin(angle))>>
AboutZ(v, angle) ==
    <<FMul(v[1], Cos(angle)) - FMul(v[2], Sin(angle)),
      FMul(v[1], Sin(angle)) + FMul(v[2], Cos(angle)),
      v[3]>>
\* X applied to the vector first, then Y, then Z.
XThenYThenZ(v, angles) == AboutZ(AboutY(AboutX(v, angles[1]), angles[2]), angles[3])
ScaledBy(v, factors) == <<FMul(v[1], factors[1]), FMul(v[2], factors[2]), FMul(v[3], factors[3])>>
\* The vector as a point (w = 1) and as a direction (w = 0).
PointOf(v) == <<v[1], v[2], v[3], ONE>>
DirectionOf(v) == <<v[1], v[2], v[3], 0>>
\* Three independent vectors and the origin: two matrices that agree on them
\* as points are equal.
Axes == {Vec3(ONE, 0, 0), Vec3(0, ONE, 0), Vec3(0, 0, ONE)}
Probes == Axes \cup {Vec3(0, 0, 0)}
\* The angles that turn a billboard at position to the camera.
BillboardAngles(position, rotation, camera_pos) ==
    Vec3(billboard_angle_x(position, camera_pos) + rotation[1],
         billboard_angle_y(position, camera_pos) + rotation[2],
         rotation[3])

\* C13: every vertex rotate_vertices returns is the given vertex turned about X
\* first, then Y, then Z; the matrices of calculate_transformation_object and
\* calculate_transformation_billboard turn every (scaled) direction about X
\* first, then Y, then Z, by the object's angles and by the billboard's angles.
C13_RotationOrder ==
    /\ call.fn = "rotate_vertices" =>
          /\ Len(ret) = 3 * (Len(call.vertices) \div 3)
          /\ \A i \in 0..((Len(call.vertices) \div 3) - 1) :
                <<ret[3 * i + 1], ret[3 * i + 2], ret[3 * i + 3]>>
                  = XThenYThenZ(<<call.vertices[3 * i + 1], call.vertices[3 * i + 2],
                                  call.vertices[3 * i + 3]>>, call.rotation)
    /\ call.fn = "calculate_transformation_object" =>
          \A v \in Axes :
             MatVec(ret, DirectionOf(v))
               = MatVec(call.view_projection_matrix,
                        DirectionOf(XThenYThenZ(ScaledBy(v, call.scale), call.rotation)))
    /\ call.fn = "calculate_transformation_billboard" =>
          \A v \in Axes :
             MatVec(ret, DirectionOf(v))
               = MatVec(call.view_projection_matrix,
                        DirectionOf(XThenYThenZ(
                            ScaledBy(v, call.scale),
                            BillboardAngles(call.position, call.rotation,
                                            call.camera_pos))))

\* C13 witness: rotate_vertices has turned (1,0,0) and (0,1,0) a quarter turn
\* about X and then a quarter turn about Y (the other order gives (0,1,0) and
\* (0,0,1)).
C13_Witness ==
    /\ call.fn = "rotate_vertices"
    /\ call.vertices = <<ONE, 0, 0, 0, ONE, 0>>
    /\ call.rotation = Vec3(FRAC_PI_2, FRAC_PI_2, 0)
    /\ ret = <<0, 0, -ONE, ONE, 0, 0>>

\* C14: the matrix calculate_transformation_object returns maps every point to
\* view_projection applied to (position + the rotation of the scaled point):
\* scale innermost, then rotation, then translation, view-projection on the
\* left.
C14_ObjectTransform ==
    call.fn = "calculate_transformation_object" =>
        \A v \in Probes :
           MatVec(ret, PointOf(v))
             = MatVec(call.view_projection_matrix,
                      PointOf(VAdd(call.position,
                                   XThenYThenZ(ScaledBy(v, call.scale), call.rotation))))

\* C14 witness: a call with a translation, a rotation about two axes, an
\* uneven scale and a view-projection other than the identity.
C14_Witness ==
    /\ call.fn = "calculate_transformation_object"
    /\ call.position = Vec3(ONE, 2 * ONE, 0)
    /\ call.rotation = Vec3(FRAC_PI_2, 0, FRAC_PI_2)
    /\ call.scale = Vec3(2 * ONE, ONE, 3 * ONE)
    /\ call.view_projection_matrix # Identity4
    /\ MatVec(ret, PointOf(Vec3(ONE, 0, 0))) = <<-2 * ONE, ONE, -ONE, 0>>

\* The yaw and the pitch of the direction from a billboard to the camera.
YawTo(position, camera_pos) ==
    LET d == Normalize(VAdd(camera_pos, VNeg(position))) IN Atan2(d[1], d[3])
PitchTo(position, camera_pos) ==
    LET d == Normalize(VAdd(camera_pos, VNeg(position)))
    IN  Atan2(d[2], Length2(d[1], d[3]))
\* The vector turned by the pitch, then by the yaw, then by the fixed half
\* turn about Y.
FacingCamera(v, position, camera_pos) ==
    AboutY(AboutY(AboutX(v, PitchTo(position, camera_pos)),
                  YawTo(position, camera_pos)), PI)

\* C15 (the render loop's part): the particles' rotation turns every direction
\* by the pitch, the yaw and the half turn.
C15_Inline ==
    call.fn = "frame" =>
        \A v \in Axes :
           MatVec(ret.particles_rotation_animation_matrix, DirectionOf(v))
             = DirectionOf(FacingCamera(v, particles_position, call.camera_pos))

\* C15: the render loop's particle rotation and the matrix of
\* calculate_transformation_billboard (given no rotation of its own) both turn
\* every direction by the pitch atan2(y, |xz|), then the yaw atan2(x, z) of the
\* direction to the camera, then the fixed half turn about Y.
C15_BillboardOrientation ==
    /\ C15_Inline
    /\ call.fn = "calculate_transformation_billboard"
         /\ call.rotation = Vec3(0, 0, 0) =>
          \A v \in Axes :
             MatVec(ret, DirectionOf(v))
               = MatVec(call.view_projection_matrix,
                        DirectionOf(FacingCamera(ScaledBy(v, call.scale),
                                                 call.position, call.camera_pos)))

\* C16: the orca's matrix maps the origin of the mesh (which the start
\* transform puts on the pivot orca_position) to view_projection applied to
\* orca_position + the linear animation offset, whatever the rotation angle;
\* likewise the particles' matrix with particles_position.
C16_PivotFixed ==
    call.fn = "frame" =>
        /\ MatVec(ret.view_projection_matrix_orca, PointOf(Vec3(0, 0, 0)))
             = MatVec(call.view_projection_matrix,
                      PointOf(VAdd(orca_position,
                                   Vec3(0, orca_linear_y(call.elapsed), 0))))
        /\ MatVec(ret.view_projection_matrix_particles, PointOf(Vec3(0, 0, 0)))
             = MatVec(call.view_projection_matrix,
                      PointOf(VAdd(particles_position, particles_linear(call.elapsed))))

\* C16 witness: a frame whose orca rotation is neither zero nor a quarter turn
\* and whose particles are turned to a camera at their side.
C16_Witness ==
    /\ call.fn = "frame"
    /\ call.elapsed = 12345
    /\ ret.orca_rotation_y = 12345
    /\ call.camera_pos = Vec3(3 * ONE, 0, 0)
    /\ ret.view_projection_matrix_orca[1][1] # 0

\* C17: the spin angle is the elapsed time modulo a full turn, and a full turn
\* of elapsed time later the angle is the same modulo a full turn.
C17_SpinPeriodic ==
    call.fn = "frame" =>
        /\ (ret.orca_rotation_y - call.elapsed) % TAU = 0
        /\ orca_rotation_y(call.elapsed + TAU) % TAU = ret.orca_rotation_y % TAU

\* C17 witness: a frame more than a full turn after the start.
C17_Witness ==
    /\ call.fn = "frame"
    /\ call.elapsed = 70000
    /\ ret.orca_rotation_y = 70000 - TAU

\* The traversal has returned.
TraversalDone == visited # <<>> /\ stack = <<>>
\* The nodes visited, in order.
VisitedNames == [i \in 1..Len(visited) |-> visited[i].node]
\* Where a node was visited.
VisitOf(name) == CHOOSE i \in 1..Len(visited) : visited[i].node = name
IsVisited(name) == \E i \in 1..Len(visited) : visited[i].node = name

RECURSIVE PreOrder(_, _)
\* The pre-order of the subtrees of the given nodes, one after the other: each
\* node, then the pre-order of its children, then the rest.
PreOrder(children, names) ==
    IF names = <<>> THEN <<>>
    ELSE <<Head(names)>> \o PreOrder(children, children[Head(names)])
                         \o PreOrder(children, Tail(names))

\* C18: at every moment the nodes visited are a prefix of the pre-order of the
\* tree, and the finished traversal has visited exactly the pre-order (for
\* root -> (A, B), A -> (A1): root, A, A1, B); the root is given the identity
\* and every other node its parent's world transform as accumulated transform,
\* and its own world transform is accumulated * local.
C18_PreOrder ==
    /\ scene # <<>> =>
          /\ Len(visited) <= Len(PreOrder(scene.children, <<"root">>))
          /\ VisitedNames = SubSeq(PreOrder(scene.children, <<"root">>), 1, Len(visited))
          /\ TraversalDone => VisitedNames = PreOrder(scene.children, <<"root">>)
          /\ TraversalDone /\ scene.children.root = <<"A", "B">>
                => VisitedNames = <<"root", "A", "A1", "B">>
    /\ \A i \in 1..Len(visited) :
          /\ visited[i].worldTransform
                = MatMul(visited[i].accumulatedTransform,
                         localTransform(scene.node[visited[i].node]))
          /\ visited[i].node = "root" => visited[i].accumulatedTransform = Identity4
          /\ \A parent \in NodeNames :
                (\E k \in 1..Len(scene.children[parent]) :
                    scene.children[parent][k] = visited[i].node)
                => /\ IsVisited(parent) /\ VisitOf(parent) < i
                   /\ visited[i].accumulatedTransform
                        = visited[VisitOf(parent)].worldTransform

\* C18 witness: the traversal of root -> (A, B), A -> (A1) has returned.
C18_Witness ==
    /\ TraversalDone
    /\ scene.children.root = <<"A", "B">>
    /\ scene.node.A.scale = Vec3(2 * ONE, 2 * ONE, 2 * ONE)
    /\ Len(visited) = 4

\* The visited nodes that have a drawable, in order.
DrawableVisited == SelectSeq(visited, LAMBDA v : v.node \in scene.drawable)

\* C19: the draw commands are, in order, one for each visited node that has a
\* drawable, carrying that node's world transform and viewProjection * world,
\* and none for a node without one; the children of a node without a drawable
\* are visited all the same, with its world transform.
C19_OneDrawPerDrawable ==
    scene # <<>> =>
        /\ Len(draw_commands) = Len(DrawableVisited)
        /\ \A i \in 1..Len(draw_commands) :
              /\ draw_commands[i].drawable = DrawableVisited[i].node
              /\ draw_commands[i].model = DrawableVisited[i].worldTransform
              /\ draw_commands[i].mvp
                    = MatMul(scene.viewProjection, DrawableVisited[i].worldTransform)
        /\ TraversalDone =>
              \A name \in NodeNames :
                 /\ IsVisited(name)
                 /\ name \notin scene.drawable
                      => \A i \in 1..Len(draw_commands) : draw_commands[i].drawable # name

\* C19 witness: a finished traversal in which A has children and no drawable,
\* and its child A1 was drawn.
C19_Witness ==
    /\ TraversalDone
    /\ scene.drawable = {"A1", "B"}
    /\ scene.children.A = <<"A1">>
    /\ Len(draw_commands) = 2
    /\ draw_commands[1].drawable = "A1"

\* The event loop's mouse block ends.
MouseAddEnds == e_pc = "mouse_cs" /\ e_pc' # "mouse_cs"
\* The render loop has stopped: the thread has panicked, the process has ended,
\* or the frames of the run are used up.
RenderLoopStopped ==
    \/ r_pc = "panicked"
    \/ ~Running
    \/ r_pc = "begin" /\ frames = MaxFrames

\* What was applied to yaw, what is pending in the shared delta and what the
\* callback is about to add make up all the motion delivered while the look
\* button was held.
C20_Conserved ==
    camera_yaw + mouse_sensitivity * (mouse_delta[1] + MotionInFlight[1])
        = mouse_sensitivity * h_motion_held[1]
\* The event loop's block adds the event's motion to what is pending; the
\* render loop's block moves what is pending into yaw; no other step touches
\* either.
C20_Step ==
    /\ MouseAddEnds =>
          /\ mouse_delta' = <<mouse_delta[1] + event.delta[1],
                              mouse_delta[2] + event.delta[2]>>
          /\ camera_yaw' = camera_yaw
    /\ MouseBlockEnds =>
          camera_yaw' - camera_yaw = mouse_sensitivity * (mouse_delta[1] - mouse_delta'[1])
    /\ ~MouseAddEnds /\ ~MouseBlockEnds => UNCHANGED <<mouse_delta, camera_yaw>>
\* C20: no motion accumulated while the look button is held is lost: under
\* every interleaving, applied + pending (+ in flight) is what was delivered,
\* every step is a C20_Step, and whatever is pending is eventually applied
\* unless the render loop stops.
C20_NoMotionLost ==
    /\ []C20_Conserved
    /\ [][C20_Step]_vars
    /\ (mouse_delta # <<0, 0>>) ~> (mouse_delta = <<0, 0>> \/ RenderLoopStopped)

\* C20 witness: two motions were added before one frame's mouse block applied
\* their sum.
C20_Witness ==
    /\ frames = 1 /\ r_pc = "draw"
    /\ h_added = <<300, -300>>
    /\ mouse_delta = <<0, 0>>
    /\ camera_yaw = 300 * mouse_sensitivity

\* The camera basis of an orientation, as main.rs 177-179 computes it.
BasisOf(yaw, pitch) ==
    LET forward == calculate_direction(yaw, pitch)
        right == Normalize(Cross(Vec3(0, ONE, 0), forward))
    IN  [forward |-> forward, right |-> right, up |-> Normalize(Cross(forward, right))]
\* The frame's basis is the one of the orientation the frame began with.
BasisOfFrameStart ==
    LET basis == BasisOf(h_frame_start.yaw, h_frame_start.pitch)
    IN  /\ camera_forward = basis.forward
        /\ camera_right = basis.right
        /\ camera_up = basis.up
\* The positions of the render thread inside a frame, in the order of the code.
FrameOrder ==
    <<"lock_ws", "ws_cs", "lock_keys", "keys_cs", "lock_mouse", "mouse_cs", "draw">>
IndexInFrame(pc) == CHOOSE i \in 1..Len(FrameOrder) : FrameOrder[i] = pc
InFrame == \E i \in 1..Len(FrameOrder) : FrameOrder[i] = r_pc
\* What holds at each position of a frame: the basis is that of the frame's
\* start all along; the orientation is still that of the start up to the mouse
\* block, and the position still that of the start up to the keyboard block.
C21_InFrame ==
    InFrame =>
        /\ BasisOfFrameStart
        /\ IndexInFrame(r_pc) <= IndexInFrame("mouse_cs")
               => camera_yaw = h_frame_start.yaw /\ camera_pitch = h_frame_start.pitch
        /\ IndexInFrame(r_pc) <= IndexInFrame("keys_cs")
               => camera_position = h_frame_start.position
\* What a drawn frame shows, seen when the next frame is about to begin: the
\* eye is the position as the frame's keyboard block left it, the view
\* direction and up vector are those of the orientation the frame began with.
C21_Drawn ==
    r_pc = "begin" /\ frame_out.drawn =>
        LET basis == BasisOf(h_frame_start.yaw, h_frame_start.pitch)
        IN  /\ frame_out.eye = camera_position
            /\ frame_out.center = VAdd(camera_position, basis.forward)
            /\ frame_out.up = basis.up
\* The steps of a frame: the render thread moves forward through FrameOrder
\* (skipping a block whose lock fails), the keyboard block moves the position
\* along the frame's basis, the mouse block leaves the basis alone, and the
\* next frame begins with the basis of the orientation the drain left.
C21_Step ==
    /\ InFrame /\ r_pc' # r_pc /\ r_pc' \notin {"begin", "panicked"}
           => IndexInFrame(r_pc') > IndexInFrame(r_pc)
    /\ r_pc' = "begin" /\ r_pc # "begin" => r_pc \in {"load", "draw"}
    /\ KeysBlockEnds =>
           camera_position' = apply_keys(pressed_keys, camera_position,
                                         BasisOf(h_frame_start.yaw, h_frame_start.pitch).forward,
                                         BasisOf(h_frame_start.yaw, h_frame_start.pitch).right,
                                         BasisOf(h_frame_start.yaw, h_frame_start.pitch).up,
                                         delta_time)
    /\ MouseBlockEnds => UNCHANGED <<camera_forward, camera_right, camera_up>>
    /\ r_pc = "begin" /\ r_pc' = "lock_ws" =>
           camera_forward' = calculate_direction(camera_yaw, camera_pitch)
\* C21: within a frame the steps run in the order basis, resize, keys, mouse
\* drain, view matrix: the movement and the view matrix of a frame use the
\* basis of the orientation before that frame's drain, the drain shows in the
\* basis of the next frame, and the frame's view matrix has the position its
\* keyboard block produced.
C21_FrameOrder == []C21_InFrame /\ []C21_Drawn /\ [][C21_Step]_vars

\* C21 witness: the first frame moved the camera forward and drained a mouse
\* motion; its view matrix has the new position and still looks along the
\* direction of yaw 0.
C21_Witness ==
    /\ r_pc = "begin" /\ frames = 1 /\ frame_out.drawn
    /\ h_frame_start.yaw = 0 /\ camera_yaw = 400 * mouse_sensitivity
    /\ frame_out.eye # h_frame_start.position
    /\ frame_out.center = VAdd(frame_out.eye, calculate_direction(0, 0))

\* Every size the render loop applied was, when it was applied, the size
\* stored last, and a later application took a size stored later: a size
\* overwritten before the render loop looked is never applied.
C22_LatestApplied ==
    \A i \in 1..Len(h_applied) :
        /\ h_applied[i].stored \in 1..Len(h_stored)
        /\ h_applied[i].size = h_stored[h_applied[i].stored]
        /\ i > 1 => h_applied[i].stored > h_applied[i - 1].stored
\* While the flag is set, the stored size is the one stored last.
C22_Pending ==
    window_size[3] =>
        /\ h_stored # <<>>
        /\ <<window_size[1], window_size[2]>> = h_stored[Len(h_stored)]
\* The flag is down and the viewport has the size stored last.
C22_ViewportIsLatest ==
    /\ ~window_size[3]
    /\ viewport = <<window_size[1], window_size[2]>>
    /\ h_stored # <<>>
    /\ viewport = h_stored[Len(h_stored)]
\* C22: of several Resized events stored between two frames the render loop
\* applies only the last one, and a set resize flag leads to the viewport
\* having the size stored last, unless the render loop stops.
C22_LatestResizeWins ==
    /\ []C22_LatestApplied
    /\ []C22_Pending
    /\ window_size[3] ~> (C22_ViewportIsLatest \/ RenderLoopStopped)

\* C22 witness: two different sizes were stored before the render loop looked,
\* and it applied the second and nothing else.
C22_Witness ==
    /\ Len(h_stored) = 2 /\ h_stored[1] # h_stored[2]
    /\ h_applied = <<[size |-> h_stored[2], stored |-> 2]>>
    /\ viewport = h_stored[2]

\* The mutexes a thread holds, the mutex a thread is about to lock, and the
\* position of a thread inside the block of a mutex.
Mutexes == {"keys", "mouse", "window"}
HeldBy(who) == {m \in Mutexes : mutex[m] = who}
LockPosition(m) ==
    CASE m = "window" -> "lock_ws" [] m = "keys" -> "lock_keys" [] m = "mouse" -> "lock_mouse"
BlockPosition(m) ==
    CASE m = "window" -> "ws_cs" [] m = "keys" -> "keys_cs" [] m = "mouse" -> "mouse_cs"
\* A thread holds a mutex exactly inside the block of that mutex, so it holds
\* at most one and holds none when it calls lock().
C23_NoNesting ==
    /\ \A m \in Mutexes : mutex[m] = "render" <=> r_pc = BlockPosition(m)
    /\ \A m \in Mutexes : mutex[m] = "event" <=> e_pc = BlockPosition(m)
    /\ Cardinality(HeldBy("render")) <= 1
    /\ Cardinality(HeldBy("event")) <= 1
    /\ \A m \in Mutexes : r_pc = LockPosition(m) => HeldBy("render") = {}
    /\ \A m \in Mutexes : e_pc = LockPosition(m) => HeldBy("event") = {}
\* A thread that waits for a mutex waits for the other thread, which is inside
\* the block of that mutex and can take its next step.
C23_NoDeadlock ==
    \A m \in Mutexes :
        /\ r_pc = LockPosition(m) /\ Running /\ ~CanLock(m)
               => mutex[m] = "event" /\ ENABLED EventLoopSteps
        /\ e_pc = LockPosition(m) /\ ~CanLock(m)
               => mutex[m] = "render" /\ ENABLED (Render \/ R_ResizePanic)
\* C23: no thread asks for a lock while it holds one, and no interleaving
\* leaves a thread waiting for a mutex whose holder cannot go on.
C23_NoNestedLocks == C23_NoNesting /\ C23_NoDeadlock

\* C23 witness: the render thread waits for the key list while the event loop
\* is inside its keyboard block, having taken no other mutex.
C23_Witness ==
    /\ r_pc = "lock_keys" /\ e_pc = "keys_cs"
    /\ mutex = [m \in Mutexes |-> IF m = "keys" THEN "event" ELSE "free"]
    /\ frames = 2

\* Where the render thread goes when it leaves the lock() of a mutex without
\* entering the block.
AfterBlock(m) ==
    CASE m = "window" -> "lock_keys" [] m = "keys" -> "lock_mouse" [] m = "mouse" -> "draw"
\* The event loop's lock() of a poisoned mutex: the shared values stay as they
\* are, nothing is held, and the callback goes on to its end, where a key
\* event of Escape or Q still asks for Exit.
C24_EventSkips ==
    \A m \in Mutexes :
        e_pc = LockPosition(m) /\ m \in poisoned /\ e_pc' # e_pc =>
            /\ UNCHANGED <<pressed_keys, mouse_delta, window_size, mutex, poisoned>>
            /\ control_flow' = IF m = "keys" THEN exit_key(event.keycode, control_flow)
                                ELSE control_flow
            /\ e_pc' = after_callback(control_flow')
\* The render thread's lock() of a poisoned mutex: the block is skipped, the
\* shared values and the camera stay as they are, and the frame goes on.  (No
\* block of the event loop can panic, so the only mutex ever poisoned is the
\* window size, by the render thread itself: no run has the render thread meet
\* a poisoned mutex.)
C24_RenderSkips ==
    \A m \in Mutexes :
        r_pc = LockPosition(m) /\ m \in poisoned /\ r_pc' # r_pc =>
            /\ UNCHANGED <<shared, camera, context_size, viewport>>
            /\ r_pc' = AfterBlock(m)
\* With a mutex poisoned, an exit request is still an exit request.
C24_StillExits ==
    poisoned # {} /\ events' # events =>
        /\ OnCloseRequested => control_flow' = "Exit" /\ e_pc' = "exited"
        /\ e_pc' \in {"wait", "exited", "lock_ws", "lock_keys", "lock_mouse"}
\* C24: a lock() that fails on a poisoned mutex is skipped: the value behind
\* it is left as it is for that event or frame, the thread goes on, and the
\* event loop still handles exit requests.
C24_PoisonedLockSkipped ==
    [][C24_EventSkips /\ C24_RenderSkips /\ C24_StillExits]_vars

\* C24 witness: the render thread panicked inside its resize block, and a
\* Resized event delivered afterwards was handled without storing its size.
C24_Witness ==
    /\ "window" \in poisoned /\ r_pc = "panicked"
    /\ e_pc = "wait"
    /\ h_resized = 2 /\ Len(h_stored) = 1
    /\ ~window_size[3]

\* The flag is true until the watchdog has run, and false only with the render
\* thread dead of a panic.
C25_Flag ==
    /\ w_pc = "join" => render_thread_healthy
    /\ ~render_thread_healthy => r_pc = "panicked" /\ w_pc = "done"
\* The flag changes only from true to false, in a step of the watchdog taken
\* after the render thread has panicked; a callback that starts with the flag
\* false sets Exit whatever its event, keeps it, and ends the event loop.
C25_Step ==
    /\ render_thread_healthy' # render_thread_healthy =>
          /\ render_thread_healthy /\ ~render_thread_healthy'
          /\ w_pc = "join" /\ w_pc' = "done"
          /\ r_pc = "panicked"
          /\ UNCHANGED <<r_pc, e_pc, events, control_flow>>
    /\ events' # events /\ ~render_thread_healthy => control_flow' = "Exit"
    /\ events' = events /\ control_flow = "Exit" => control_flow' = "Exit"
    /\ e_pc' = "wait" /\ e_pc # "wait" => control_flow' = "Wait"
\* C25: the health flag starts true, is cleared only by the watchdog after a
\* panic of the render thread, is never set again, and once it is false every
\* callback leaves the control flow at Exit.
C25_HealthFlag == []C25_Flag /\ [][C25_Step]_vars

\* C25 witness: with the flag false, the callback of a press of W (no exit
\* key) has the control flow at Exit.
C25_Witness ==
    /\ ~render_thread_healthy
    /\ e_pc = "lock_keys" /\ event = KeyboardInput("Pressed", "W")
    /\ control_flow = "Exit"

\* The callback of a key event ends.
KeyCallbackEnds ==
    /\ e_pc \in {"lock_keys", "keys_cs"}
    /\ e_pc' \notin {"lock_keys", "keys_cs"}
\* A callback starts on an event that is no exit request.
OtherCallbackStarts ==
    \/ \E sz \in SpecSizes : OnResized(sz[1], sz[2])
    \/ \E s \in ElementStates, k \in ExitSpecKeyCodes : OnKeyboardInput(s, k)
    \/ \E b \in MouseButtons, s \in ElementStates : OnMouseInput(b, s)
    \/ \E d \in SpecMotions : OnMouseMotion(d)
    \/ OnOtherEvent
\* The pressed-key list after the event loop's keyboard block has handled the
\* event.
KeysAfter(keys, e) ==
    IF e.state = "Released" THEN key_released(keys, e.keycode)
    ELSE key_pressed(keys, e.keycode)
\* CloseRequested sets Exit; a key event of Escape or Q, pressed or released,
\* sets Exit in the step that ends its callback, with the list updated by that
\* event; while the render thread is healthy no other callback starts with
\* Exit, and inside a callback only the end of an Escape or Q event changes
\* the control flow.
C26_Step ==
    /\ OnCloseRequested => control_flow' = "Exit" /\ e_pc' = "exited"
    /\ KeyCallbackEnds /\ event.keycode \in ExitKeys =>
          /\ control_flow' = "Exit" /\ e_pc' = "exited"
          /\ e_pc = "keys_cs" => pressed_keys' = KeysAfter(pressed_keys, event)
    /\ KeyCallbackEnds /\ event.keycode \notin ExitKeys =>
          /\ control_flow' = control_flow
          /\ e_pc = "keys_cs" => pressed_keys' = KeysAfter(pressed_keys, event)
    /\ OtherCallbackStarts /\ render_thread_healthy =>
          control_flow' = "Wait" /\ e_pc' # "exited"
    /\ events' = events /\ control_flow' # control_flow =>
          KeyCallbackEnds /\ event.keycode \in ExitKeys
\* C26: the event loop asks for Exit on CloseRequested and on every key event
\* of Escape or Q, once the pressed-key list has that event; no other event
\* does while the render thread is healthy.
C26_ExitRequests == [][C26_Step]_vars

\* C26 witness: a press of Q was added to the list and ended the event loop,
\* the render thread healthy.
C26_Witness ==
    /\ e_pc = "exited" /\ control_flow = "Exit"
    /\ render_thread_healthy
    /\ pressed_keys = <<"W", "Q">>

\* The severities of an error that make the callback panic.
PanicSeverities ==
    {"DEBUG_SEVERITY_HIGH", "DEBUG_SEVERITY_MEDIUM", "DEBUG_SEVERITY_LOW"}
\* A call panics exactly on an error of high, medium or low severity.
C27_Outcome ==
    call.fn = "debug_callback" =>
        /\ ret \in {"panic", "return"}
        /\ ret = "panic" <=>
               call.e_type = "DEBUG_TYPE_ERROR" /\ call.severity \in PanicSeverities
\* A call changes nothing of the program.
C27_Step == call'.fn = "debug_callback" => UNCHANGED program
C28_ColorComponents ==
    call.fn = "create_vao" /\ call.colors # <<>> =>
        ret.enabled /\ ret.size = ComponentsOf(call.layout)
====
